---- MODULE Spec2Model ----
(***************************************************************************)
(* A model of the HLB code generator (codegen.Generate and the emit*       *)
(* functions of src/codegen/codegen.go) over the concrete syntax tree of   *)
(* the parser package (src/unnamed/part_000).                              *)
(*                                                                         *)
(* Strings are sequences of one-character strings, so that shell           *)
(* splitting and quoting are computed character by character.  An llb      *)
(* state is the sequence of operations that built it, Scratch being the    *)
(* empty sequence.  The evaluator is a family of mutually recursive        *)
(* operators threading a machine record m (the CodeGenInfo plus a history  *)
(* of hook and callback invocations); every operator returns a result      *)
(* record [st, v, e, m] where st is "ok", "err" (an error value returned)  *)
(* or "panic" (the Go runtime unwinds to the caller of Generate).          *)
(***************************************************************************)
EXTENDS Integers, Sequences, FiniteSets, TLC

VARIABLES body, targetCall, genOpts, runs, cst, out

vars == <<body, targetCall, genOpts, runs, cst, out>>

(***************************************************************************)
(* Bounds of the model.                                                    *)
(***************************************************************************)
MaxStmts == 3
MaxFailAt == 3
MaxLen == 3
MaxArgLen == 2

(***************************************************************************)
(* Strings.                                                                *)
(***************************************************************************)
SQ == "'"
DQ == "\""
BS == "\\"
SP == " "

Chars == {"a", SP, SQ, DQ, BS}

RECURSIVE StringsUpTo(_)
StringsUpTo(n) ==
    IF n = 0 THEN {<<>>}
    ELSE LET S == StringsUpTo(n - 1)
         IN  S \cup {Append(s, c) : s \in {t \in S : Len(t) = n - 1}, c \in Chars}

Drop(s, n) == SubSeq(s, n + 1, Len(s))

\* strings.IndexRune: 0 when the character does not occur (Go returns -1).
RECURSIVE IndexOf(_, _)
IndexOf(s, c) ==
    IF s = <<>> THEN 0
    ELSE IF Head(s) = c THEN 1
    ELSE LET i == IndexOf(Tail(s), c) IN IF i = 0 THEN 0 ELSE i + 1

RECURSIVE Concat(_)
Concat(ss) == IF ss = <<>> THEN <<>> ELSE Head(ss) \o Concat(Tail(ss))

(***************************************************************************)
(* github.com/kballard/go-shellquote, as called by the run statement.      *)
(***************************************************************************)
SplitChars == {SP}
DoubleEscapeChars == {DQ, BS}
SpecialChars == {BS, SQ, DQ}
ExtraSpecialChars == {SP}

\* splitWord: scans one word in raw, single-quoted or double-quoted mode.
RECURSIVE SplitWord(_, _, _)
SplitWord(mode, buf, input) ==
    CASE mode = "raw" ->
            IF input = <<>> THEN [err |-> "", word |-> buf, rest |-> <<>>]
            ELSE LET c == Head(input)
                     cur == Tail(input)
                 IN  IF c = SQ THEN SplitWord("single", buf, cur)
                     ELSE IF c = DQ THEN SplitWord("double", buf, cur)
                     ELSE IF c = BS THEN
                         IF cur = <<>>
                         THEN [err |-> "UnterminatedEscape", word |-> <<>>, rest |-> <<>>]
                         ELSE SplitWord("raw", Append(buf, Head(cur)), Tail(cur))
                     ELSE IF c \in SplitChars THEN [err |-> "", word |-> buf, rest |-> cur]
                     ELSE SplitWord("raw", Append(buf, c), cur)
      [] mode = "single" ->
            LET i == IndexOf(input, SQ)
            IN  IF i = 0
                THEN [err |-> "UnterminatedSingleQuote", word |-> <<>>, rest |-> <<>>]
                ELSE SplitWord("raw", buf \o SubSeq(input, 1, i - 1), Drop(input, i))
      [] mode = "double" ->
            IF input = <<>>
            THEN [err |-> "UnterminatedDoubleQuote", word |-> <<>>, rest |-> <<>>]
            ELSE LET c == Head(input)
                     cur == Tail(input)
                 IN  IF c = DQ THEN SplitWord("raw", buf, cur)
                     ELSE IF c = BS /\ cur # <<>> /\ Head(cur) \in DoubleEscapeChars
                          THEN SplitWord("double", Append(buf, Head(cur)), Tail(cur))
                     ELSE IF c = BS /\ cur # <<>>
                          THEN SplitWord("double", buf \o <<c, Head(cur)>>, Tail(cur))
                     ELSE SplitWord("double", Append(buf, c), cur)

\* shellquote.Split: the words of input, or the error of an unterminated
\* quote or escape.
RECURSIVE Split(_)
Split(input) ==
    IF input = <<>> THEN [err |-> "", parts |-> <<>>]
    ELSE IF Head(input) \in SplitChars THEN Split(Tail(input))
    ELSE IF Head(input) = BS /\ Tail(input) = <<>>
         THEN [err |-> "UnterminatedEscape", parts |-> <<>>]
    ELSE LET w == SplitWord("raw", <<>>, input)
         IN  IF w.err # "" THEN [err |-> w.err, parts |-> <<>>]
             ELSE LET r == Split(w.rest)
                  IN  IF r.err # "" THEN r
                      ELSE [err |-> "", parts |-> <<w.word>> \o r.parts]

\* quote mode of shellquote: single quotes around every stretch free of
\* single quotes, each single quote written as \'.
RECURSIVE QuoteMode(_)
QuoteMode(word) ==
    LET i == IndexOf(word, SQ)
    IN  IF i = 0
        THEN IF word = <<>> THEN <<>> ELSE <<SQ>> \o word \o <<SQ>>
        ELSE (IF i > 1 THEN <<SQ>> \o SubSeq(word, 1, i - 1) \o <<SQ>> ELSE <<>>)
             \o <<BS, SQ>> \o QuoteMode(Drop(word, i))

RECURSIVE BackslashEscape(_)
BackslashEscape(word) ==
    IF word = <<>> THEN <<>>
    ELSE (IF Head(word) \in SpecialChars THEN <<BS, Head(word)>> ELSE <<Head(word)>>)
         \o BackslashEscape(Tail(word))

\* A word joined as it is.
QuotePlain(word) == word

\* A special character already escaped before the first space is discarded
\* with the rest of the buffer when quote mode starts over, so the outcome
\* depends only on whether the word holds an extra-special character.
Quote(word) ==
    IF word = <<>> THEN <<SQ, SQ>>
    ELSE IF \E i \in 1..Len(word) : word[i] \in ExtraSpecialChars THEN QuoteMode(word)
    ELSE BackslashEscape(word)

\* shellquote.Join: the quoted words separated by single spaces.
RECURSIVE Join(_)
Join(words) ==
    IF words = <<>> THEN <<>>
    ELSE IF Len(words) = 1 THEN Quote(words[1])
    ELSE Quote(words[1]) \o <<SP>> \o Join(Tail(words))

BinSh == <<"/bin/sh">>
DashC == <<"-c">>

(***************************************************************************)
(* The concrete syntax tree (parser package).                              *)
(***************************************************************************)
\* ObjType constants: a type is the sequence of its tokens, "::" included.
None == <<>>
Str == <<"string">>
IntType == <<"int">>
Bool == <<"bool">>
Filesystem == <<"fs">>
Option == <<"option">>
OptionRun == <<"option", "::", "run">>
OptionMount == <<"option", "::", "mount">>

\* strings.Split(s, "::")[0]
RECURSIVE FirstPart(_)
FirstPart(t) ==
    IF t = <<>> \/ Head(t) = "::" THEN <<>> ELSE <<Head(t)>> \o FirstPart(Tail(t))

\* Type.Type: the principal type.
TypeOf(objType) == FirstPart(objType)

\* The ObjType constants.
ObjTypes ==
    {None, Str, IntType, Bool, Filesystem, Option}
        \cup {<<"option", "::", sub>> :
                  sub \in {"image", "http", "git", "local", "generate", "run", "ssh",
                           "secret", "mount", "mkdir", "mkfile", "rm", "copy"}}

\* lexer.Position, and the zero Position of a node built by NewType.
Position(file, offset, line, column) ==
    [Filename |-> file, Offset |-> offset, Line |-> line, Column |-> column]
NoPos == Position("", 0, 0, 0)

\* A Type node.
TypeAt(objType, pos) == [kind |-> "Type", Pos |-> pos, ObjType |-> objType]
TypeNode(objType) == TypeAt(objType, NoPos)

\* Type.Equals
Equals(t, typ) == typ = TypeOf(t.ObjType)

\* No syntax node is under examination.
NoNode == [kind |-> "none"]

\* A nil pointer to a node.
NilNode == [kind |-> "nil"]

\* len(s) of a string: the character count, an ObjType being the sequence
\* of its tokens.
AtomLen(a) ==
    CASE a \in {"fs", "::", "rm"} -> 2
      [] a \in {"int", "git", "run", "ssh"} -> 3
      [] a \in {"bool", "http", "copy"} -> 4
      [] a \in {"image", "local", "mount", "mkdir"} -> 5
      [] a \in {"string", "option", "secret", "mkfile"} -> 6
      [] a = "generate" -> 8
      [] OTHER -> 1
RECURSIVE StrLen(_)
StrLen(s) == IF s = <<>> THEN 0 ELSE AtomLen(Head(s)) + StrLen(Tail(s))

\* shiftPosition
shiftPosition(pos, offset, line) ==
    [pos EXCEPT !.Offset = @ + offset, !.Column = @ + offset, !.Line = @ + line]

\* The result of a method that returns a position: the position, or the
\* runtime panic of a nil pointer dereference.
PosOk(pos) == [st |-> "ok", pos |-> pos]
NilDeref == [st |-> "panic", pos |-> NoPos]

\* Node.Position
PositionOf(n) == IF n.kind = "FieldList" THEN n.OpenParen.Pos ELSE n.Pos

\* Node.End, one arm per node type.
RECURSIVE End(_)
End(n) ==
    CASE n.kind = "nil" -> NilDeref
      [] n.kind = "File" ->
            IF Len(n.Decls) = 0
            THEN IF n.Doc.kind = "nil" THEN PosOk(shiftPosition(n.Pos, 1, 0))
                 ELSE End(n.Doc)
            ELSE End(n.Decls[Len(n.Decls)])
      [] n.kind = "Decl" ->
            IF n.Bad.kind # "nil" THEN End(n.Bad)
            ELSE IF n.Import.kind # "nil" THEN End(n.Import)
            ELSE IF n.Export.kind # "nil" THEN End(n.Export)
            ELSE IF n.Func.kind # "nil" THEN End(n.Func)
            ELSE IF n.Newline.kind # "nil" THEN End(n.Newline)
            ELSE IF n.Doc.kind # "nil" THEN End(n.Doc)
            ELSE PosOk(shiftPosition(n.Pos, 1, 0))
      [] n.kind = "BadDecl" -> PosOk(shiftPosition(n.Pos, StrLen(n.Bad), 0))
      [] n.kind = "ImportDecl" -> End(n.Import)
      [] n.kind = "ExportDecl" -> End(n.Ident)
      [] n.kind = "FuncDecl" ->
            IF n.Body.kind = "nil" THEN NilDeref ELSE End(n.Body.CloseBrace)
      [] n.kind = "Method" -> End(n.CloseParen)
      [] n.kind = "FieldList" -> End(n.CloseParen)
      [] n.kind = "Field" -> End(n.Name)
      [] n.kind = "Variadic" -> PosOk(shiftPosition(n.Pos, StrLen(n.Keyword), 0))
      [] n.kind = "Expr" ->
            IF n.Ident.kind # "nil" THEN End(n.Ident)
            ELSE IF n.FuncLit.kind # "nil" THEN End(n.FuncLit)
            ELSE PosOk(shiftPosition(n.Pos, 1, 0))
      [] n.kind = "Type" -> PosOk(shiftPosition(n.Pos, StrLen(n.ObjType), 0))
      [] n.kind = "Ident" -> PosOk(shiftPosition(n.Pos, StrLen(n.Name), 0))
      [] n.kind = "FuncLit" -> End(n.Body)
      [] n.kind = "Stmt" ->
            IF n.Call.kind # "nil" THEN End(n.Call)
            ELSE IF n.Newline.kind # "nil" THEN End(n.Newline)
            ELSE IF n.Doc.kind # "nil" THEN End(n.Doc)
            ELSE PosOk(shiftPosition(n.Pos, 1, 0))
      [] n.kind = "CallStmt" -> End(n.StmtEnd)
      [] n.kind = "WithOpt" ->
            IF n.Ident.kind # "nil" THEN End(n.Ident)
            ELSE IF n.FuncLit.kind # "nil" THEN End(n.FuncLit)
            ELSE PosOk(shiftPosition(n.Pos, 1, 0))
      [] n.kind = "With" -> PosOk(shiftPosition(n.Pos, StrLen(n.Keyword), 0))
      [] n.kind = "AliasDecl" -> End(n.Ident)
      [] n.kind = "As" -> PosOk(shiftPosition(n.Pos, StrLen(n.Keyword), 0))
      [] n.kind = "StmtEnd" ->
            IF n.Semicolon # <<>> THEN PosOk(shiftPosition(n.Pos, StrLen(n.Semicolon), 0))
            ELSE IF n.Newline.kind # "nil" THEN End(n.Newline)
            ELSE IF n.Comment.kind # "nil" THEN End(n.Comment)
            ELSE PosOk(shiftPosition(n.Pos, 1, 0))
      [] n.kind = "BlockStmt" -> End(n.CloseBrace)
      [] n.kind = "CommentGroup" ->
            IF Len(n.List) = 0 THEN PosOk(shiftPosition(n.Pos, 1, 0))
            ELSE End(n.List[Len(n.List)])
      [] n.kind = "Comment" -> PosOk(shiftPosition(n.Pos, StrLen(n.Text) - 1, 0))
      [] n.kind = "Newline" -> PosOk(shiftPosition(n.Pos, StrLen(n.Text), 0))
      [] n.kind \in {"OpenParen", "CloseParen", "OpenBrace", "CloseBrace"} ->
            PosOk(shiftPosition(n.Pos, 1, 0))

\* Expr: one of Ident, BasicLit, FuncLit.
StrLit(s) == [k |-> "str", s |-> s]
IntLit(n) == [k |-> "int", n |-> n]
BoolLit(b) == [k |-> "bool", b |-> b]
IdentExpr(name) == [k |-> "ident", name |-> name]
FuncLitExpr(typ, stmts) == [k |-> "funclit", typ |-> typ, body |-> stmts]

\* WithOpt: absent, an identifier or an inline option block.
NoWith == [k |-> "nil"]
WithIdent(name) == [k |-> "ident", name |-> name]
WithFuncLit(stmts) == [k |-> "funclit", body |-> stmts]

\* Stmt: a CallStmt or trivia.  pos identifies the node (the *CallStmt
\* pointer of the Go code); alias is "" when the statement has no `as`.
CallStmt(fn, args, with, alias, pos) ==
    [k |-> "call", fn |-> fn, args |-> args, with |-> with, alias |-> alias, pos |-> pos]
NewlineStmt(pos) ==
    [k |-> "newline", fn |-> "", args |-> <<>>, with |-> NoWith, alias |-> "", pos |-> pos]

IsCall(stmt) == stmt.k = "call"

\* BlockStmt.NonEmptyStmts: the statements that are neither Newline nor Doc.
NonEmptyStmts(list) == SelectSeq(list, IsCall)

(***************************************************************************)
(* report package: the builtin registry and the debug family.              *)
(***************************************************************************)
Debugs == {"breakpoint"}

FsSources == {"scratch", "image", "http", "git", "local", "generate"}
FsChains == {"run", "env", "dir", "user", "entrypoint", "mkdir", "mkfile", "rm", "copy"}
StrSources == {"value", "format"}

Builtins(typ) ==
    IF typ = Filesystem THEN FsSources \cup FsChains
    ELSE IF typ = Str THEN StrSources
    ELSE {}

(***************************************************************************)
(* Values and results.                                                     *)
(***************************************************************************)
NilVal == [t |-> "nil"]
FsVal(ops) == [t |-> "fs", fs |-> ops]
StrVal(s) == [t |-> "str", s |-> s]
IntVal(n) == [t |-> "int", n |-> n]
BoolVal(b) == [t |-> "bool", b |-> b]
OptsVal(items) == [t |-> "opts", items |-> items]

\* llb.Scratch()
Scratch == <<>>

Ok(m, v) == [st |-> "ok", v |-> v, e |-> "", m |-> m]
Err(m, e) == [st |-> "err", v |-> NilVal, e |-> e, m |-> m]
Panic(m, msg) == [st |-> "panic", v |-> NilVal, e |-> msg, m |-> m]

Log(m, event) == [m EXCEPT !.log = Append(@, event)]

\* CodeGenInfo as Generate builds it, with the history of the run.  failAt
\* is the installed debugger: 0 is the no-op debugger, n > 0 a debugger that
\* returns an error at its n-th invocation.
NewInfo(dbg, seed) ==
    [log |-> <<>>, locals |-> {}, nid |-> 0, seed |-> seed, hooks |-> 0, failAt |-> dbg]

\* info.Debug(scope, node, v)
Debug(m, scope, node, v) ==
    LET m1 == [Log(m, [ev |-> "debug", scope |-> scope, node |-> node, v |-> v])
                  EXCEPT !.hooks = @ + 1]
    IN  IF m.failAt # 0 /\ m1.hooks = m.failAt THEN Err(m1, "debugger") ELSE Ok(m1, NilVal)

\* ac(call, v): an invocation of the alias callback ac.
InvokeAlias(m, ac, call, v) ==
    Log(m, [ev |-> "alias", ac |-> ac, node |-> call.pos, name |-> call.alias, v |-> v])

noopAliasCallback == "noop"

\* An id generator that repeats its id.
NewIDSame(m) == <<m.seed>>

\* identity.NewID(): ids are random; a run draws them from the stream of
\* its seed, which never repeats an id.
NewID(m) == <<m.seed>> \o [i \in 1..(m.nid + 1) |-> "#"]

(***************************************************************************)
(* The checked file given to Generate.  Its declarations follow go.hlb and *)
(* mkdocs.hlb; the body of `default` is the variable part.                 *)
(*                                                                         *)
(*   fs default() { <body> }                                               *)
(*   fs src() { local "a" }                                                *)
(*   fs build() { image "a"; run "a" with option {                         *)
(*                    mount scratch "a" as binary } }                      *)
(*   string word() { value "a" }                                           *)
(*   string greet() { format "a %s" "a" }                                  *)
(*   option::run cacheMounts() { mount scratch "a" as cache }              *)
(*   import npm from fs { image "a" }                                      *)
(***************************************************************************)
A1 == <<"a">>
FmtS == "%s"

SrcBody == <<CallStmt("local", <<StrLit(A1)>>, NoWith, "", 9001)>>

BinaryMount ==
    CallStmt("mount", <<IdentExpr("scratch"), StrLit(A1)>>, NoWith, "binary", 9013)

BuildBody ==
    << CallStmt("image", <<StrLit(A1)>>, NoWith, "", 9011),
       CallStmt("run", <<StrLit(A1)>>, WithFuncLit(<<BinaryMount>>), "", 9012) >>

WordBody == <<CallStmt("value", <<StrLit(A1)>>, NoWith, "", 9021)>>

GreetBody ==
    <<CallStmt("format", <<StrLit(<<"a", SP, FmtS>>), StrLit(A1)>>, NoWith, "", 9031)>>

CacheMount ==
    CallStmt("mount", <<IdentExpr("scratch"), StrLit(A1)>>, NoWith, "cache", 9041)

CacheMountsBody == <<CacheMount>>

FuncDeclObj(name, typ) ==
    [kind |-> "decl", node |-> "FuncDecl", name |-> name, typ |-> typ]
\* An AliasDecl refers back to its enclosing FuncDecl and its CallStmt.
AliasDeclObj(name, func, typ, call) ==
    [kind |-> "decl", node |-> "AliasDecl", name |-> name, func |-> func, typ |-> typ,
     call |-> call]
ImportDeclObj(name) == [kind |-> "decl", node |-> "ImportDecl", name |-> name]
ExprObj(name, data) == [kind |-> "expr", node |-> "Field", name |-> name, data |-> data]
FieldObj(name, typ) == [kind |-> "field", node |-> "Field", name |-> name, typ |-> typ]
NilObj == [kind |-> "nil", node |-> "nil"]

ReadonlyRootFS == [o |-> "ReadonlyRootFS"]

\*   fs default() { ...; <stmt> as mine; ... }
FileObjects ==
    { FuncDeclObj("default", Filesystem),
      FuncDeclObj("src", Filesystem),
      FuncDeclObj("build", Filesystem),
      FuncDeclObj("word", Str),
      FuncDeclObj("greet", Str),
      FuncDeclObj("cacheMounts", OptionRun),
      AliasDeclObj("binary", "build", Filesystem, BinaryMount),
      AliasDeclObj("cache", "cacheMounts", OptionRun, CacheMount),
      ImportDeclObj("npm"),
      ExprObj("opts", OptsVal(<<ReadonlyRootFS>>)),
      ExprObj("mounts", OptsVal(<<[o |-> "AddMount", target |-> A1, input |-> Scratch,
                                   opts |-> <<>>]>>)),
      FieldObj("args", OptionRun) }
        \cup {AliasDeclObj("mine", "default", Filesystem, body[j]) :
                  j \in {i \in 1..Len(body) : body[i].alias = "mine"}}

\* Scope.Lookup: the scopes of the parameterless functions of the file hold
\* no names of their own, so every lookup ends in the file scope.
Lookup(scope, name) ==
    IF \E o \in FileObjects : o.name = name
    THEN CHOOSE o \in FileObjects : o.name = name
    ELSE NilObj

\* FuncDecl.Body.List
FuncBody(name) ==
    CASE name = "default" -> body
      [] name = "src" -> SrcBody
      [] name = "build" -> BuildBody
      [] name = "word" -> WordBody
      [] name = "greet" -> GreetBody
      [] name = "cacheMounts" -> CacheMountsBody
      [] OTHER -> <<>>

(***************************************************************************)
(* The evaluator.                                                          *)
(***************************************************************************)
\* The functions of the evaluator call one another through Call.
RECURSIVE Call(_, _)
RECURSIVE LeadingDebugs(_, _, _, _, _)
RECURSIVE ChainStmts(_, _, _, _, _, _, _)
RECURSIVE EmitStringExprs(_, _, _, _, _, _)
RECURSIVE AliasedMounts(_, _, _, _, _, _)

\* fmt.Sprintf restricted to the %s verb.
RECURSIVE Sprintf(_, _)
Sprintf(format, as) ==
    IF format = <<>>
    THEN IF as = <<>> THEN <<>> ELSE <<"%!(EXTRA)">>
    ELSE IF Head(format) = FmtS
         THEN IF as = <<>>
              THEN <<"%!s(MISSING)">> \o Sprintf(Tail(format), as)
              ELSE Head(as) \o Sprintf(Tail(format), Tail(as))
         ELSE <<Head(format)>> \o Sprintf(Tail(format), as)

\* emitIntExpr on a literal.
EmitIntExpr(m, scope, expr) == Ok(m, IntVal(expr.n))

\* maybeEmitBoolExpr: true when the flag has no argument.
MaybeEmitBoolExpr(m, scope, args) ==
    IF Len(args) = 0 THEN Ok(m, BoolVal(TRUE)) ELSE Ok(m, BoolVal(args[1].b))

EmitFilesystemBlock(m, scope, stmts, ac) ==
    LET r == Call("EmitBlock", <<m, scope, Filesystem, stmts, ac>>)
    IN  IF r.st = "err" THEN [r EXCEPT !.v = FsVal(Scratch)] ELSE r

EmitStringBlock(m, scope, stmts) ==
    LET r == Call("EmitBlock", <<m, scope, Str, stmts, noopAliasCallback>>)
    IN  IF r.st = "err" THEN [r EXCEPT !.v = StrVal(<<>>)] ELSE r

EmitFuncLit(m, scope, lit, op, ac) ==
    LET typ == TypeOf(lit.typ)
    IN  IF typ = IntType \/ typ = Bool THEN Panic(m, "unimplemented")
        ELSE IF typ = Filesystem
             THEN Call("EmitFilesystemBlock", <<m, scope, NonEmptyStmts(lit.body), ac>>)
        ELSE IF typ = Str THEN Call("EmitStringBlock", <<m, scope, NonEmptyStmts(lit.body)>>)
        ELSE IF typ = Option THEN Call("EmitOptions",
                <<m, scope, op, NonEmptyStmts(lit.body), ac>>)
        ELSE Ok(m, NilVal)

\* emitFuncDecl: the body of the function evaluated by the block protocol.
EmitFuncDecl(m, scope, fun, call, op, ac) ==
    LET typ == TypeOf(fun.typ)
        stmts == NonEmptyStmts(FuncBody(fun.name))
    IN  IF typ = Filesystem THEN Call("EmitFilesystemBlock", <<m, fun.name, stmts, ac>>)
        ELSE IF typ = Str THEN Call("EmitStringBlock", <<m, fun.name, stmts>>)
        ELSE IF typ = Option THEN Call("EmitOptions", <<m, fun.name, op, stmts, ac>>)
        ELSE Panic(m, "unimplemented")

\* The values the callback of emitAliasDecl was given for the aliased call.
Captured(m, ac, call) ==
    SelectSeq(m.log, LAMBDA e : e.ev = "alias" /\ e.ac = ac /\ e.node = call.pos)

\* emitAliasDecl: the enclosing function evaluated with a callback that
\* keeps the value passed for the aliased call statement.
EmitAliasDecl(m, scope, n, call) ==
    LET ac == "capture"
        base == Len(Captured(m, ac, n.call))
        r == Call("EmitFuncDecl", <<m, scope, Lookup(scope, n.func), n.call, "", ac>>)
    IN  IF r.st # "ok" THEN r
        ELSE LET got == Captured(r.m, ac, n.call)
             IN  IF Len(got) > base THEN Ok(r.m, got[Len(got)].v) ELSE Ok(r.m, NilVal)

\* emitStringExpr
EmitStringExpr(m, scope, call, expr) ==
    CASE expr.k = "str" -> Ok(m, StrVal(expr.s))
      [] expr.k = "funclit" -> Call("EmitFuncLit", <<m, scope, expr, "", noopAliasCallback>>)
      [] expr.k = "ident" ->
            LET obj == Lookup(scope, expr.name)
            IN  IF obj.kind = "decl" /\ obj.node = "FuncDecl"
                THEN Call("EmitFuncDecl", <<m, scope, obj, call, "", noopAliasCallback>>)
                ELSE IF obj.kind = "decl" /\ obj.node = "AliasDecl"
                THEN Call("EmitAliasDecl", <<m, scope, obj, call>>)
                ELSE IF obj.kind = "expr" THEN Ok(m, obj.data)
                ELSE Panic(m, "unknown obj type")
      [] OTHER -> Panic(m, "unknown string expr")

\* The arguments args[i..n] evaluated in order as strings; v.items holds
\* the strings.
EmitStringExprs(m, scope, call, args, i, acc) ==
    IF i > Len(args) THEN Ok(m, OptsVal(acc))
    ELSE LET r == Call("EmitStringExpr", <<m, scope, call, args[i]>>)
         IN  IF r.st # "ok" THEN r
             ELSE EmitStringExprs(r.m, scope, call, args, i + 1, Append(acc, r.v.s))

\* emitFilesystemExpr
EmitFilesystemExpr(m, scope, call, expr, ac) ==
    CASE expr.k = "funclit" -> Call("EmitFuncLit", <<m, scope, expr, "", ac>>)
      [] expr.k = "ident" ->
            LET obj == Lookup(scope, expr.name)
            IN  IF expr.name \in Builtins(Filesystem)
                THEN Call("EmitFilesystemSourceStmt", <<m, scope,
                         CallStmt(expr.name, <<>>, NoWith, "", 0), ac>>)
                ELSE IF obj.kind = "decl" /\ obj.node = "FuncDecl"
                THEN Call("EmitFuncDecl", <<m, scope, obj, call, "", noopAliasCallback>>)
                ELSE IF obj.kind = "decl" /\ obj.node = "AliasDecl"
                THEN Call("EmitAliasDecl", <<m, scope, obj, call>>)
                ELSE IF obj.kind = "expr" THEN Ok(m, obj.data)
                ELSE Panic(m, "unknown obj type")
      [] OTHER -> Panic(m, "unknown fs expr")

\* emitOptionExpr on the identifier of an option statement that is no
\* builtin option: a user-declared option function or a bound option list.
EmitOptionExpr(m, scope, call, op, expr) ==
    LET obj == Lookup(scope, expr.name)
    IN  IF obj.kind = "decl" /\ obj.node = "FuncDecl"
        THEN Call("EmitFuncDecl", <<m, scope, obj, call, op, noopAliasCallback>>)
        ELSE IF obj.kind = "expr" THEN Ok(m, obj.data)
        ELSE Panic(m, "unknown obj type")

(***************************************************************************)
(* The option emitters.  Each is a loop over the statements of the option  *)
(* block; acc holds the option list built so far and the aggregate record  *)
(* (CopyInfo, sshSocketOpt, secretOpt) the emitter fills on the way.       *)
(***************************************************************************)
RECURSIVE OptionStmts(_, _, _, _, _, _, _)

Item(o, a) == [o |-> o, a |-> a]
Add(acc, item) == [acc EXCEPT !.opts = Append(@, item)]

\* time.Parse(time.RFC3339, v)
ValidTime == <<"2006-01-02T15:04:05Z">>
ParseTime(v) ==
    IF v = ValidTime THEN [err |-> "", t |-> v] ELSE [err |-> "parsing time", t |-> <<>>]

CopyInfo0 ==
    [o |-> "CopyInfo", FollowSymlinks |-> FALSE, CopyDirContentsOnly |-> FALSE,
     AttemptUnpack |-> FALSE, CreateDestPath |-> FALSE, AllowWildcard |-> FALSE,
     AllowEmptyWildcard |-> FALSE]
SocketOpt0 == [target |-> <<>>, uid |-> 0, gid |-> 0, mode |-> 0]
Acc0 == [opts |-> <<>>, cp |-> CopyInfo0, sopt |-> NilVal]

\* The default case of every emitter.
DefaultOptionStmt(m, scope, op, stmt, acc) ==
    LET r == Call("EmitOptionExpr", <<m, scope, stmt, op, IdentExpr(stmt.fn)>>)
    IN  IF r.st # "ok" THEN r ELSE Ok(r.m, [acc EXCEPT !.opts = @ \o r.v.items])

\* A flag that appends item only when its value is true.
FlagIfTrue(m, scope, stmt, acc, item) ==
    LET v == MaybeEmitBoolExpr(m, scope, stmt.args)
    IN  IF v.st # "ok" THEN v ELSE Ok(v.m, IF v.v.b THEN Add(acc, item) ELSE acc)

\* A flag with a value, were it appended only when true.
FlagValueIfTrue(m, scope, stmt, acc, name) == FlagIfTrue(m, scope, stmt, acc, Item(name, TRUE))

\* A flag that always appends an item carrying its value.
FlagValue(m, scope, stmt, acc, name) ==
    LET v == MaybeEmitBoolExpr(m, scope, stmt.args)
    IN  IF v.st # "ok" THEN v ELSE Ok(v.m, Add(acc, Item(name, v.v.b)))

\* An option with one string argument.
StringOption(m, scope, stmt, acc, name) ==
    LET v == Call("EmitStringExpr", <<m, scope, stmt, stmt.args[1]>>)
    IN  IF v.st # "ok" THEN v ELSE Ok(v.m, Add(acc, Item(name, v.v.s)))

\* An option with two string arguments.
StringPairOption(m, scope, stmt, acc, name) ==
    LET k == Call("EmitStringExpr", <<m, scope, stmt, stmt.args[1]>>)
    IN  IF k.st # "ok" THEN k
        ELSE LET v == Call("EmitStringExpr", <<k.m, scope, stmt, stmt.args[2]>>)
             IN  IF v.st # "ok" THEN v ELSE Ok(v.m, Add(acc, Item(name, <<k.v.s, v.v.s>>)))

\* An option over all the string arguments of the statement.
StringsOption(m, scope, stmt, acc, name) ==
    LET v == Call("EmitStringExprs", <<m, scope, stmt, stmt.args, 1, <<>>>>)
    IN  IF v.st # "ok" THEN v ELSE Ok(v.m, Add(acc, Item(name, v.v.items)))

\* createdTime
CreatedTimeOptionLenient(m, scope, stmt, acc) ==
    LET v == Call("EmitStringExpr", <<m, scope, stmt, stmt.args[1]>>)
    IN  IF v.st # "ok" THEN v ELSE Ok(v.m, Add(acc, Item("WithCreatedTime", v.v.s)))

CreatedTimeOption(m, scope, stmt, acc) ==
    LET v == Call("EmitStringExpr", <<m, scope, stmt, stmt.args[1]>>)
    IN  IF v.st # "ok" THEN v
        ELSE LET t == ParseTime(v.v.s)
             IN  IF t.err # "" THEN Err(v.m, t.err)
                 ELSE Ok(v.m, Add(acc, Item("WithCreatedTime", t.t)))

EmitImageOptions(m, scope, op, stmt, acc) ==
    CASE stmt.fn = "resolve" -> FlagIfTrue(m, scope, stmt, acc, Item("WithDefault", TRUE))
      [] OTHER -> Call("DefaultOptionStmt", <<m, scope, op, stmt, acc>>)

EmitHTTPOptions(m, scope, op, stmt, acc) ==
    CASE stmt.fn = "checksum" -> Call("StringOption", <<m, scope, stmt, acc, "Checksum">>)
      [] stmt.fn = "chmod" ->
            LET mode == EmitIntExpr(m, scope, stmt.args[1])
            IN  Ok(mode.m, Add(acc, Item("Chmod", mode.v.n)))
      [] stmt.fn = "filename" -> Call("StringOption", <<m, scope, stmt, acc, "Filename">>)
      [] OTHER -> Call("DefaultOptionStmt", <<m, scope, op, stmt, acc>>)

EmitGitOptions(m, scope, op, stmt, acc) ==
    CASE stmt.fn = "keepGitDir" ->
            FlagIfTrue(m, scope, stmt, acc, Item("KeepGitDir", TRUE))
      [] OTHER -> Call("DefaultOptionStmt", <<m, scope, op, stmt, acc>>)

EmitLocalOptions(m, scope, op, stmt, acc) ==
    CASE stmt.fn = "includePatterns" -> Call("StringsOption",
            <<m, scope, stmt, acc, "IncludePatterns">>)
      [] stmt.fn = "excludePatterns" -> Call("StringsOption",
              <<m, scope, stmt, acc, "ExcludePatterns">>)
      [] stmt.fn = "followPaths" -> Call("StringsOption", <<m, scope, stmt, acc, "FollowPaths">>)
      [] OTHER -> Call("DefaultOptionStmt", <<m, scope, op, stmt, acc>>)

EmitGenerateOptions(m, scope, op, stmt, acc, ac) ==
    CASE stmt.fn = "frontendInput" ->
            LET key == Call("EmitStringExpr", <<m, scope, stmt, stmt.args[1]>>)
            IN  IF key.st # "ok" THEN key
                ELSE LET value == Call("EmitFilesystemExpr",
                        <<key.m, scope, NilVal, stmt.args[2], ac>>)
                     IN  IF value.st # "ok" THEN value
                         ELSE Ok(value.m, Add(acc, Item("WithFrontendInput",
                                                        <<key.v.s, value.v.fs>>)))
      [] stmt.fn = "frontendOpt" -> Call("StringPairOption",
              <<m, scope, stmt, acc, "WithFrontendOpt">>)
      [] OTHER -> Call("DefaultOptionStmt", <<m, scope, op, stmt, acc>>)

EmitMkdirOptions(m, scope, op, stmt, acc) ==
    CASE stmt.fn = "createParents" -> FlagValue(m, scope, stmt, acc, "WithParents")
      [] stmt.fn = "chown" -> Call("StringOption", <<m, scope, stmt, acc, "WithUser">>)
      [] stmt.fn = "createdTime" -> Call("CreatedTimeOption", <<m, scope, stmt, acc>>)
      [] OTHER -> Call("DefaultOptionStmt", <<m, scope, op, stmt, acc>>)

EmitMkfileOptions(m, scope, op, stmt, acc) ==
    CASE stmt.fn = "chown" -> Call("StringOption", <<m, scope, stmt, acc, "WithUser">>)
      [] stmt.fn = "createdTime" -> Call("CreatedTimeOption", <<m, scope, stmt, acc>>)
      [] OTHER -> Call("DefaultOptionStmt", <<m, scope, op, stmt, acc>>)

EmitRmOptions(m, scope, op, stmt, acc) ==
    CASE stmt.fn = "allowNotFound" -> FlagValue(m, scope, stmt, acc, "WithAllowNotFound")
      [] stmt.fn = "allowWildcard" -> FlagValue(m, scope, stmt, acc, "WithAllowWildcard")
      [] OTHER -> Call("DefaultOptionStmt", <<m, scope, op, stmt, acc>>)

\* The CopyInfo field a flag statement of the copy options sets.
CopyFlags ==
    [followSymlinks |-> "FollowSymlinks", contentsOnly |-> "CopyDirContentsOnly",
     unpack |-> "AttemptUnpack", createDestPath |-> "CreateDestPath",
     allowWildcards |-> "AllowWildcard", allowEmptyWildcard |-> "AllowEmptyWildcard"]

EmitCopyOptions(m, scope, op, stmt, acc) ==
    CASE stmt.fn \in DOMAIN CopyFlags ->
            LET v == MaybeEmitBoolExpr(m, scope, stmt.args)
            IN  IF v.st # "ok" THEN v
                ELSE Ok(v.m, [acc EXCEPT !.cp[CopyFlags[stmt.fn]] = v.v.b])
      [] stmt.fn = "chown" -> Call("StringOption", <<m, scope, stmt, acc, "WithUser">>)
      [] stmt.fn = "createdTime" -> Call("CreatedTimeOption", <<m, scope, stmt, acc>>)
      [] OTHER -> Call("DefaultOptionStmt", <<m, scope, op, stmt, acc>>)

\* A field statement, were the aggregated option allocated at each one.
SetSocketFieldFresh(m, scope, stmt, acc, field) ==
    LET v == IF field = "target" THEN Call("EmitStringExpr", <<m, scope, stmt, stmt.args[1]>>)
             ELSE EmitIntExpr(m, scope, stmt.args[1])
    IN  IF v.st # "ok" THEN v
        ELSE Ok(v.m, [acc EXCEPT !.sopt =
                         [SocketOpt0 EXCEPT ![field] = IF field = "target" THEN v.v.s
                                                       ELSE v.v.n]])

\* A statement of the ssh or secret options that sets a field of the
\* aggregated socket or file option, allocating it on first use.
SetSocketField(m, scope, stmt, acc, field) ==
    LET v == IF field = "target" THEN Call("EmitStringExpr", <<m, scope, stmt, stmt.args[1]>>)
             ELSE EmitIntExpr(m, scope, stmt.args[1])
        sopt == IF acc.sopt = NilVal THEN SocketOpt0 ELSE acc.sopt
    IN  IF v.st # "ok" THEN v
        ELSE Ok(v.m, [acc EXCEPT !.sopt =
                         [sopt EXCEPT ![field] = IF field = "target" THEN v.v.s ELSE v.v.n]])

EmitSSHOptions(m, scope, op, stmt, acc) ==
    CASE stmt.fn \in {"target", "uid", "gid", "mode"} ->
            Call("SetSocketField", <<m, scope, stmt, acc, stmt.fn>>)
      [] stmt.fn = "id" -> Call("StringOption", <<m, scope, stmt, acc, "SSHID">>)
      [] OTHER -> Call("DefaultOptionStmt", <<m, scope, op, stmt, acc>>)

EmitSecretOptions(m, scope, op, stmt, acc) ==
    CASE stmt.fn \in {"uid", "gid", "mode"} -> Call("SetSocketField",
            <<m, scope, stmt, acc, stmt.fn>>)
      [] stmt.fn = "id" -> Call("StringOption", <<m, scope, stmt, acc, "SecretID">>)
      [] OTHER -> Call("DefaultOptionStmt", <<m, scope, op, stmt, acc>>)

EmitMountOptions(m, scope, op, stmt, acc) ==
    CASE stmt.fn = "readonly" -> FlagIfTrue(m, scope, stmt, acc, Item("Readonly", TRUE))
      [] stmt.fn = "tmpfs" -> FlagIfTrue(m, scope, stmt, acc, Item("Tmpfs", TRUE))
      [] stmt.fn = "sourcePath" -> Call("StringOption", <<m, scope, stmt, acc, "SourcePath">>)
      [] stmt.fn = "cache" ->
            LET id == Call("EmitStringExpr", <<m, scope, stmt, stmt.args[1]>>)
            IN  IF id.st # "ok" THEN id
                ELSE
                LET mode == Call("EmitStringExpr", <<id.m, scope, stmt, stmt.args[2]>>)
                IN  IF mode.st # "ok" THEN mode
                    ELSE IF mode.v.s \in {<<"shared">>, <<"private">>, <<"locked">>}
                         THEN Ok(mode.m, Add(acc, Item("AsPersistentCacheDir",
                                                       <<id.v.s, mode.v.s>>)))
                    ELSE Panic(mode.m, "unknown sharing mode")
      [] OTHER -> Call("DefaultOptionStmt", <<m, scope, op, stmt, acc>>)

NetModes == {<<<<"unset">>, "UNSET">>, <<<<"host">>, "HOST">>, <<<<"node">>, "NONE">>}
SecurityModes == {<<<<"sandbox">>, "SANDBOX">>, <<<<"insecure">>, "INSECURE">>}

\* A mode for every string, were the strings not told apart.
ModeOfAny(modes, str) == (CHOOSE p \in modes : TRUE)[2]

\* The enumerated mode an option string names, "" when it names none.
ModeOf(modes, str) ==
    IF \E p \in modes : p[1] = str THEN (CHOOSE p \in modes : p[1] = str)[2] ELSE ""

EmitExecOptions(m, scope, op, stmt, acc, ac) ==
    LET w == Call("WithOption", <<m, scope, stmt, ac>>)
        args == stmt.args
    IN  IF w.st # "ok" THEN w
        ELSE
        LET iopts == w.v.items
        IN  CASE stmt.fn = "readonlyRootfs" -> FlagIfTrue(w.m, scope, stmt, acc, ReadonlyRootFS)
              [] stmt.fn = "env" -> Call("StringPairOption", <<w.m, scope, stmt, acc, "AddEnv">>)
              [] stmt.fn = "dir" -> Call("StringOption", <<w.m, scope, stmt, acc, "Dir">>)
              [] stmt.fn = "user" -> Call("StringOption", <<w.m, scope, stmt, acc, "User">>)
              [] stmt.fn = "network" ->
                    LET mode == Call("EmitStringExpr", <<w.m, scope, stmt, args[1]>>)
                    IN  IF mode.st # "ok" THEN mode
                        ELSE IF ModeOf(NetModes, mode.v.s) = ""
                             THEN Panic(mode.m, "unknown network mode")
                        ELSE Ok(mode.m, Add(acc, Item("Network", ModeOf(NetModes, mode.v.s))))
              [] stmt.fn = "security" ->
                    LET mode == Call("EmitStringExpr", <<w.m, scope, stmt, args[1]>>)
                    IN  IF mode.st # "ok" THEN mode
                        ELSE IF ModeOf(SecurityModes, mode.v.s) = ""
                             THEN Panic(mode.m, "unknown network mode")
                        ELSE Ok(mode.m, Add(acc, Item("Security",
                                                      ModeOf(SecurityModes, mode.v.s))))
              [] stmt.fn = "host" -> Call("StringPairOption",
                      <<w.m, scope, stmt, acc, "AddExtraHost">>)
              [] stmt.fn = "ssh" -> Ok(w.m, Add(acc, Item("AddSSHSocket", iopts)))
              [] stmt.fn = "secret" ->
                    LET target == Call("EmitStringExpr", <<w.m, scope, stmt, args[1]>>)
                    IN  IF target.st # "ok" THEN target
                        ELSE Ok(target.m, Add(acc, Item("AddSecret", <<target.v.s, iopts>>)))
              [] stmt.fn = "mount" ->
                    LET input == Call("EmitFilesystemExpr", <<w.m, scope, NilVal, args[1], ac>>)
                    IN  IF input.st # "ok" THEN input
                        ELSE
                        LET target == Call("EmitStringExpr", <<input.m, scope, stmt, args[2]>>)
                        IN  IF target.st # "ok" THEN target
                            ELSE Ok(target.m,
                                    Add(acc, [o |-> "AddMount", target |-> target.v.s,
                                              input |-> input.v.fs, opts |-> iopts]))
              [] OTHER -> Call("DefaultOptionStmt", <<w.m, scope, op, stmt, acc>>)

OptionOps ==
    {"image", "http", "git", "local", "generate", "run", "ssh", "secret", "mount",
     "mkdir", "mkfile", "rm", "copy"}

\* One iteration of the loop of the emitter of op.
OptionStmt(m, scope, op, stmt, acc, ac) ==
    CASE op = "image" -> Call("EmitImageOptions", <<m, scope, op, stmt, acc>>)
      [] op = "http" -> Call("EmitHTTPOptions", <<m, scope, op, stmt, acc>>)
      [] op = "git" -> Call("EmitGitOptions", <<m, scope, op, stmt, acc>>)
      [] op = "local" -> Call("EmitLocalOptions", <<m, scope, op, stmt, acc>>)
      [] op = "generate" -> Call("EmitGenerateOptions", <<m, scope, op, stmt, acc, ac>>)
      [] op = "run" -> Call("EmitExecOptions", <<m, scope, op, stmt, acc, ac>>)
      [] op = "ssh" -> Call("EmitSSHOptions", <<m, scope, op, stmt, acc>>)
      [] op = "secret" -> Call("EmitSecretOptions", <<m, scope, op, stmt, acc>>)
      [] op = "mount" -> Call("EmitMountOptions", <<m, scope, op, stmt, acc>>)
      [] op = "mkdir" -> Call("EmitMkdirOptions", <<m, scope, op, stmt, acc>>)
      [] op = "mkfile" -> Call("EmitMkfileOptions", <<m, scope, op, stmt, acc>>)
      [] op = "rm" -> Call("EmitRmOptions", <<m, scope, op, stmt, acc>>)
      [] op = "copy" -> Call("EmitCopyOptions", <<m, scope, op, stmt, acc>>)

OptionStmts(m, scope, op, stmts, i, acc, ac) ==
    IF i > Len(stmts) THEN Ok(m, acc)
    ELSE LET r == Call("OptionStmt", <<m, scope, op, stmts[i], acc, ac>>)
         IN  IF r.st # "ok" THEN r
             ELSE OptionStmts(r.m, scope, op, stmts, i + 1, r.v, ac)

\* The return of the emitters, were the CopyInfo appended after the items.
FinishOptionsCopyLast(op, acc) ==
    IF op = "copy" THEN Append(acc.opts, acc.cp) ELSE acc.opts

\* What each emitter returns after its loop.
FinishOptions(op, acc) ==
    CASE op = "copy" -> <<acc.cp>> \o acc.opts
      [] op = "ssh" /\ acc.sopt # NilVal -> Append(acc.opts, Item("SSHSocketOpt", acc.sopt))
      [] op = "secret" /\ acc.sopt # NilVal ->
            Append(acc.opts, Item("SecretFileOpt", [uid |-> acc.sopt.uid,
                                                    gid |-> acc.sopt.gid,
                                                    mode |-> acc.sopt.mode]))
      [] OTHER -> acc.opts

\* emitOptions
EmitOptions(m, scope, op, stmts, ac) ==
    IF op \notin OptionOps THEN Panic(m, "call stmt does not support options")
    ELSE LET r == Call("OptionStmts", <<m, scope, op, stmts, 1, Acc0, ac>>)
         IN  IF r.st # "ok" THEN r ELSE Ok(r.m, OptsVal(FinishOptions(op, r.v)))

\* emitWithOption: the option list of the with clause of parent.
EmitWithOption(m, scope, parent, with, ac) ==
    CASE with.k = "nil" -> Ok(m, OptsVal(<<>>))
      [] with.k = "ident" ->
            LET obj == Lookup(scope, with.name)
            IN  IF obj.kind = "expr" THEN Ok(m, obj.data)
                ELSE Panic(m, "unknown with option kind")
      [] with.k = "funclit" ->
            Call("EmitOptions", <<m, scope, parent.fn, NonEmptyStmts(with.body), ac>>)
      [] OTHER -> Panic(m, "unknown with option")

\* The with clause of call evaluated; the history keeps the option list.
WithOption(m, scope, call, ac) ==
    LET w == Call("EmitWithOption", <<m, scope, call, call.with, ac>>)
    IN  IF w.st # "ok" \/ call.with.k = "nil" THEN w
        ELSE Ok(Log(w.m, [ev |-> "with", scope |-> scope, node |-> call.pos,
                          items |-> w.v.items]), w.v)

\* The builder operations of the llb package.
Image(ref, opts) == [op |-> "Image", ref |-> ref, opts |-> opts]
HTTP(url, opts) == [op |-> "HTTP", url |-> url, opts |-> opts]
Git(remote, ref, opts) == [op |-> "Git", remote |-> remote, ref |-> ref, opts |-> opts]
Local(id, opts) == [op |-> "Local", id |-> id, opts |-> opts]
Frontend(frontend, opts) == [op |-> "Frontend", input |-> frontend, opts |-> opts]
Run(opts) == [op |-> "Run", opts |-> opts]
AddEnv(key, value) == [op |-> "AddEnv", key |-> key, value |-> value]
Dir(path) == [op |-> "Dir", path |-> path]
User(name) == [op |-> "User", name |-> name]
Args(stArgs) == [op |-> "Args", args |-> stArgs]
Mkdir(path, mode, opts) == [op |-> "Mkdir", path |-> path, mode |-> mode, opts |-> opts]
Mkfile(path, mode, content, opts) ==
    [op |-> "Mkfile", path |-> path, mode |-> mode, content |-> content, opts |-> opts]
Rm(path, opts) == [op |-> "Rm", path |-> path, opts |-> opts]
Copy(input, src, dest, opts) ==
    [op |-> "Copy", input |-> input, src |-> src, dest |-> dest, opts |-> opts]
Shlex(str) == [o |-> "Shlex", str |-> str]
IgnoreCache == [o |-> "IgnoreCache"]

\* The options of generate, were they those of the with clause alone.
FrontendOptsAsGiven(iopts) == iopts

\* The options of generate: llb.IgnoreCache, then those of the with clause.
FrontendOpts(iopts) == <<IgnoreCache>> \o iopts
\* ExecState.GetMount(target): the state of the mount at target after the exec.
GetMount(exec, target) == Append(exec, [op |-> "GetMount", target |-> target])

\* emitFilesystemSourceStmt
EmitFilesystemSourceStmt(m, scope, call, ac) ==
    LET w == Call("WithOption", <<m, scope, call, ac>>)
        args == call.args
    IN  IF w.st # "ok" THEN w
        ELSE
        LET iopts == w.v.items
        IN  CASE call.fn = "scratch" -> Ok(w.m, FsVal(Scratch))
              [] call.fn = "image" ->
                    LET ref == Call("EmitStringExpr", <<w.m, scope, call, args[1]>>)
                    IN  IF ref.st # "ok" THEN ref
                        ELSE Ok(ref.m, FsVal(<<Image(ref.v.s, iopts)>>))
              [] call.fn = "http" ->
                    LET url == Call("EmitStringExpr", <<w.m, scope, call, args[1]>>)
                    IN  IF url.st # "ok" THEN url
                        ELSE Ok(url.m, FsVal(<<HTTP(url.v.s, iopts)>>))
              [] call.fn = "git" ->
                    LET remote == Call("EmitStringExpr", <<w.m, scope, call, args[1]>>)
                    IN  IF remote.st # "ok" THEN remote
                        ELSE LET ref == Call("EmitStringExpr", <<remote.m, scope, call, args[2]>>)
                             IN  IF ref.st # "ok" THEN ref
                                 ELSE Ok(ref.m, FsVal(<<Git(remote.v.s, ref.v.s, iopts)>>))
              [] call.fn = "local" ->
                    LET path == Call("EmitStringExpr", <<w.m, scope, call, args[1]>>)
                    IN  IF path.st # "ok" THEN path
                        ELSE LET id == NewID(path.m)
                                 m1 == [path.m EXCEPT !.nid = @ + 1,
                                                      !.locals = {p \in @ : p[1] # id}
                                                          \cup {<<id, path.v.s>>}]
                             IN  Ok(m1, FsVal(<<Local(id, <<>>)>>))
              [] call.fn = "generate" ->
                    LET frontend == Call("EmitFilesystemExpr",
                            <<w.m, scope, NilVal, args[1], ac>>)
                    IN  IF frontend.st # "ok" THEN frontend
                        ELSE Ok(frontend.m,
                                FsVal(<<Frontend(frontend.v.fs, FrontendOpts(iopts))>>))
              [] OTHER -> Panic(w.m, "unknown fs source stmt")

\* emitStringSourceStmt
EmitStringSourceStmt(m, scope, call, ac) ==
    LET args == call.args
    IN  CASE call.fn = "value" -> Call("EmitStringExpr", <<m, scope, call, args[1]>>)
          [] call.fn = "format" ->
                LET formatStr == Call("EmitStringExpr", <<m, scope, call, args[1]>>)
                IN  IF formatStr.st # "ok" THEN formatStr
                    ELSE LET as == Call("EmitStringExprs",
                            <<formatStr.m, scope, call, args, 2, <<>>>>)
                         IN  IF as.st # "ok" THEN as
                             ELSE Ok(as.m, StrVal(Call("Sprintf", <<formatStr.v.s, as.v.items>>)))
          [] OTHER -> Panic(m, "unknown string source stmt")

\* emitSourceStmt, were the callee given the callback of the caller.
EmitSourceStmtLeaky(m, scope, typ, call, ac) ==
    LET m0 == Log(m, [ev |-> "source", scope |-> scope, node |-> call.pos, fn |-> call.fn])
    IN  IF call.fn \in Builtins(typ)
        THEN IF typ = Filesystem THEN Call("EmitFilesystemSourceStmt", <<m0, scope, call, ac>>)
             ELSE IF typ = Str THEN Call("EmitStringSourceStmt", <<m0, scope, call, ac>>)
             ELSE Panic(m0, "unimplemented")
        ELSE LET obj == Lookup(scope, call.fn)
             IN  IF obj.kind = "nil" THEN Panic(m0, call.fn)
                 ELSE IF obj.node = "FuncDecl"
                      THEN Call("EmitFuncDecl", <<m0, scope, obj, call, "", ac>>)
                 ELSE IF obj.node = "AliasDecl" THEN Call("EmitAliasDecl",
                         <<m0, scope, obj, call>>)
                 ELSE IF obj.node = "Field" THEN Ok(m0, obj.data)
                 ELSE Panic(m0, "unknown obj type")

\* emitSourceStmt
EmitSourceStmt(m, scope, typ, call, ac) ==
    LET m0 == Log(m, [ev |-> "source", scope |-> scope, node |-> call.pos, fn |-> call.fn])
    IN  IF call.fn \in Builtins(typ)
        THEN IF typ = Filesystem THEN Call("EmitFilesystemSourceStmt", <<m0, scope, call, ac>>)
             ELSE IF typ = Str THEN Call("EmitStringSourceStmt", <<m0, scope, call, ac>>)
             ELSE Panic(m0, "unimplemented")
        ELSE LET obj == Lookup(scope, call.fn)
             IN  IF obj.kind = "nil" THEN Panic(m0, call.fn)
                 ELSE IF obj.node = "FuncDecl"
                      THEN Call("EmitFuncDecl", <<m0, scope, obj, call, "", noopAliasCallback>>)
                 ELSE IF obj.node = "AliasDecl" THEN Call("EmitAliasDecl",
                         <<m0, scope, obj, call>>)
                 ELSE IF obj.node = "Field" THEN Ok(m0, obj.data)
                 ELSE Panic(m0, "unknown obj type")

\* The state options emitFilesystemChainStmt returns: a Go closure is the
\* record of what it does when applied.
NilChain == [t |-> "chain", c |-> "nil"]
OpChain(o) == [t |-> "chain", c |-> "op", op |-> o]
RunChain(opts, targets, calls) ==
    [t |-> "chain", c |-> "run", opts |-> opts, targets |-> targets, calls |-> calls]

\* The scan of the inline option block of run for aliased mounts, from
\* statement i on: targets in statement order, calls keyed by target.
AliasedMounts(m, scope, call, stmts, i, found) ==
    IF i > Len(stmts) THEN Ok(m, found)
    ELSE IF stmts[i].fn # "mount" \/ stmts[i].alias = ""
         THEN AliasedMounts(m, scope, call, stmts, i + 1, found)
    ELSE LET target == Call("EmitStringExpr", <<m, scope, call, stmts[i].args[2]>>)
         IN  IF target.st # "ok" THEN target
             ELSE AliasedMounts(target.m, scope, call, stmts, i + 1,
                      [targets |-> Append(found.targets, target.v.s),
                       calls |-> {c \in found.calls : c[1] # target.v.s}
                                     \cup {<<target.v.s, stmts[i]>>}])

\* The command string of run, were one argument always passed through.
RunShlexAsIs(m, scope, call) ==
    IF Len(call.args) = 1 THEN Call("EmitStringExpr", <<m, scope, call, call.args[1]>>)
    ELSE LET runArgs == Call("EmitStringExprs", <<m, scope, call, call.args, 1, <<>>>>)
         IN  IF runArgs.st # "ok" THEN runArgs
             ELSE Ok(runArgs.m, StrVal(Join(runArgs.v.items)))

\* The command string of run.
RunShlex(m, scope, call) ==
    LET args == call.args
    IN  IF Len(args) = 1
        THEN LET commandStr == Call("EmitStringExpr", <<m, scope, call, args[1]>>)
             IN  IF commandStr.st # "ok" THEN commandStr
                 ELSE LET parts == Split(commandStr.v.s)
                      IN  IF parts.err # "" THEN Err(commandStr.m, parts.err)
                          ELSE IF Len(parts.parts) = 1 THEN commandStr
                          ELSE Ok(commandStr.m,
                                  StrVal(Join(<<BinSh, DashC, commandStr.v.s>>)))
        ELSE LET runArgs == Call("EmitStringExprs", <<m, scope, call, args, 1, <<>>>>)
             IN  IF runArgs.st # "ok" THEN runArgs
                 ELSE Ok(runArgs.m, StrVal(Join(runArgs.v.items)))

\* emitFilesystemChainStmt
EmitFilesystemChainStmt(m, scope, typ, call, ac) ==
    LET args == call.args
        w == Call("WithOption", <<m, scope, call, ac>>)
    IN  IF w.st # "ok" THEN w
        ELSE
        LET iopts == w.v.items
        IN  CASE call.fn = "run" ->
                    LET shlex == Call("RunShlex", <<w.m, scope, call>>)
                    IN  IF shlex.st # "ok" THEN shlex
                        ELSE
                        LET with == call.with
                            scan == IF with.k = "funclit"
                                    THEN Call("AliasedMounts", <<shlex.m, scope, call,
                                             NonEmptyStmts(with.body), 1,
                                             [targets |-> <<>>, calls |-> {}]>>)
                                    ELSE IF with.k = "nil" \/ with.k = "ident"
                                    THEN Ok(shlex.m, [targets |-> <<>>, calls |-> {}])
                                    ELSE Panic(shlex.m, "unknown with option")
                        IN  IF scan.st # "ok" THEN scan
                            ELSE Ok(scan.m, RunChain(iopts \o <<Shlex(shlex.v.s)>>,
                                                     scan.v.targets, scan.v.calls))
              [] call.fn = "env" ->
                    LET key == Call("EmitStringExpr", <<w.m, scope, call, args[1]>>)
                    IN  IF key.st # "ok" THEN key
                        ELSE LET value == Call("EmitStringExpr", <<key.m, scope, call, args[2]>>)
                             IN  IF value.st # "ok" THEN value
                                 ELSE Ok(value.m, OpChain(AddEnv(key.v.s, value.v.s)))
              [] call.fn = "dir" ->
                    LET path == Call("EmitStringExpr", <<w.m, scope, call, args[1]>>)
                    IN  IF path.st # "ok" THEN path ELSE Ok(path.m, OpChain(Dir(path.v.s)))
              [] call.fn = "user" ->
                    LET name == Call("EmitStringExpr", <<w.m, scope, call, args[1]>>)
                    IN  IF name.st # "ok" THEN name ELSE Ok(name.m, OpChain(User(name.v.s)))
              [] call.fn = "entrypoint" ->
                    LET stArgs == Call("EmitStringExprs", <<w.m, scope, call, args, 1, <<>>>>)
                    IN  IF stArgs.st # "ok" THEN stArgs
                        ELSE Ok(stArgs.m, OpChain(Args(stArgs.v.items)))
              [] call.fn = "mkdir" ->
                    LET path == Call("EmitStringExpr", <<w.m, scope, call, args[1]>>)
                    IN  IF path.st # "ok" THEN path
                        ELSE
                        LET mode == EmitIntExpr(path.m, scope, args[2])
                            w2 == Call("WithOption", <<mode.m, scope, call, ac>>)
                        IN  IF w2.st # "ok" THEN w2
                            ELSE Ok(w2.m, OpChain(Mkdir(path.v.s, mode.v.n, w2.v.items)))
              [] call.fn = "mkfile" ->
                    LET path == Call("EmitStringExpr", <<w.m, scope, call, args[1]>>)
                    IN  IF path.st # "ok" THEN path
                        ELSE
                        LET mode == EmitIntExpr(path.m, scope, args[2])
                            content == Call("EmitStringExpr", <<mode.m, scope, call, args[3]>>)
                        IN  IF content.st # "ok" THEN content
                            ELSE Ok(content.m,
                                    OpChain(Mkfile(path.v.s, mode.v.n, content.v.s, iopts)))
              [] call.fn = "rm" ->
                    LET path == Call("EmitStringExpr", <<w.m, scope, call, args[1]>>)
                    IN  IF path.st # "ok" THEN path
                        ELSE Ok(path.m, OpChain(Rm(path.v.s, iopts)))
              [] call.fn = "copy" ->
                    LET input == Call("EmitFilesystemExpr", <<w.m, scope, NilVal, args[1], ac>>)
                    IN  IF input.st # "ok" THEN input
                        ELSE
                        LET src == Call("EmitStringExpr", <<input.m, scope, call, args[2]>>)
                        IN  IF src.st # "ok" THEN src
                            ELSE
                            LET dest == Call("EmitStringExpr", <<src.m, scope, call, args[3]>>)
                            IN  IF dest.st # "ok" THEN dest
                                ELSE Ok(dest.m, OpChain(Copy(input.v.fs, src.v.s,
                                                             dest.v.s, iopts)))
              [] OTHER -> Ok(w.m, NilChain)

\* emitChainStmt
EmitChainStmt(m, scope, typ, call, ac) ==
    LET m0 == Log(m, [ev |-> "chain", scope |-> scope, node |-> call.pos, fn |-> call.fn])
    IN  IF typ = Filesystem THEN Call("EmitFilesystemChainStmt", <<m0, scope, typ, call, ac>>)
        ELSE IF typ = Str THEN Panic(m0, "unimplemented")
        ELSE Panic(m0, "unknown chain stmt")

\* The alias callback invocations of the closure of run, one per target.
RECURSIVE MountCallbacks(_, _, _, _, _)
MountCallbacks(m, ac, so, exec, i) ==
    IF i > Len(so.targets) THEN m
    ELSE LET target == so.targets[i]
             call == (CHOOSE c \in so.calls : c[1] = target)[2]
         IN  MountCallbacks(InvokeAlias(m, ac, call, FsVal(GetMount(exec, target))),
                            ac, so, exec, i + 1)

\* The state option so applied to the state st.
StateOption(m, so, st, ac) ==
    CASE so.c = "nil" -> Panic(m, "nil state option")
      [] so.c = "op" -> Ok(m, FsVal(Append(st, so.op)))
      [] so.c = "run" ->
            LET exec == Append(st, Run(so.opts))
            IN  Ok(Call("MountCallbacks", <<m, ac, so, exec, 1>>), FsVal(exec))

\* v = chain(v), were the chain applied to the identity value.
ApplyChainToIdentity(m, scope, call, so, v, ac) ==
    LET a == Call("StateOption", <<m, so, Scratch, ac>>)
    IN  IF a.st # "ok" THEN a
        ELSE Ok(Log(a.m, [ev |-> "applied", scope |-> scope, node |-> call.pos,
                          fn |-> call.fn, in |-> v, v |-> a.v]), a.v)

\* v = chain(v) in emitBlock; the history keeps the accumulator before and
\* after.
ApplyChain(m, scope, call, so, v, ac) ==
    LET a == Call("StateOption", <<m, so, v.fs, ac>>)
    IN  IF a.st # "ok" THEN a
        ELSE Ok(Log(a.m, [ev |-> "applied", scope |-> scope, node |-> call.pos,
                          fn |-> call.fn, in |-> v, v |-> a.v]), a.v)

\* The source statement, were the hook not invoked on it.
SourceStmtNoHook(m, scope, typ, sourceStmt, v, ac) ==
    LET src == Call("EmitSourceStmt", <<m, scope, typ, sourceStmt, ac>>)
    IN  IF src.st # "ok" THEN src
        ELSE Ok(Log(src.m, [ev |-> "sourced", scope |-> scope,
                            node |-> sourceStmt.pos, fn |-> sourceStmt.fn,
                            in |-> v, v |-> src.v]), src.v)

\* The source statement of emitBlock: the hook, then the statement; the
\* history keeps the value it leaves.
SourceStmt(m, scope, typ, sourceStmt, v, ac) ==
    LET d == Debug(m, scope, sourceStmt.pos, v)
    IN  IF d.st # "ok" THEN d
        ELSE LET src == Call("EmitSourceStmt", <<d.m, scope, typ, sourceStmt, ac>>)
             IN  IF src.st # "ok" THEN src
                 ELSE Ok(Log(src.m, [ev |-> "sourced", scope |-> scope,
                                     node |-> sourceStmt.pos, fn |-> sourceStmt.fn,
                                     in |-> v, v |-> src.v]), src.v)

\* Source statements may be aliased.
SourceAlias(m, ac, sourceStmt, v) ==
    IF sourceStmt.alias # "" THEN InvokeAlias(m, ac, sourceStmt, v) ELSE m

\* Chain statements, were their aliases ignored.
ChainAliasNone(m, ac, call, v) == m

\* Chain statements, were the callback invoked a second time.
ChainAliasTwice(m, ac, call, v) ==
    IF call.alias # "" THEN InvokeAlias(InvokeAlias(m, ac, call, v), ac, call, v) ELSE m

\* Chain statements may be aliased.
ChainAlias(m, ac, call, v) ==
    IF call.alias # "" THEN InvokeAlias(m, ac, call, v) ELSE m

\* The identity of a block type.
Identity(typ) ==
    IF typ = Filesystem THEN FsVal(Scratch)
    ELSE IF typ = Str THEN StrVal(<<>>)
    ELSE NilVal

\* The first loop of emitBlock, from statement i on: the debug hook on the
\* leading debug statements; v.n is the index of the source statement.
LeadingDebugs(m, scope, stmts, i, v) ==
    IF i > Len(stmts) THEN Ok(m, IntVal(1))
    ELSE IF stmts[i].fn \in Debugs
         THEN LET d == Debug(m, scope, stmts[i].pos, v)
              IN  IF d.st # "ok" THEN d ELSE LeadingDebugs(d.m, scope, stmts, i + 1, v)
    ELSE Ok(m, IntVal(i))

\* The second loop, were it to go on after a statement that failed.
RECURSIVE ChainStmtsGoOn(_, _, _, _, _, _, _)
ChainStmtsGoOn(m, scope, typ, stmts, i, v, ac) ==
    IF i > Len(stmts) THEN Ok(m, v)
    ELSE
    LET call == stmts[i]
        d == Debug(m, scope, call.pos, v)
    IN  IF d.st # "ok" \/ call.fn \in Debugs
        THEN ChainStmtsGoOn(d.m, scope, typ, stmts, i + 1, v, ac)
        ELSE
        LET chain == Call("EmitChainStmt", <<d.m, scope, typ, call, ac>>)
        IN  IF chain.st # "ok" THEN ChainStmtsGoOn(chain.m, scope, typ, stmts, i + 1, v, ac)
            ELSE
            LET a == Call("ApplyChain", <<chain.m, scope, call, chain.v, v, ac>>)
            IN  IF a.st # "ok" THEN a
                ELSE
                ChainStmtsGoOn(ChainAlias(a.m, ac, call, a.v), scope, typ, stmts, i + 1,
                               a.v, ac)

\* The second loop of emitBlock, from statement i on, with accumulator v.
ChainStmts(m, scope, typ, stmts, i, v, ac) ==
    IF i > Len(stmts) THEN Ok(m, v)
    ELSE
    LET call == stmts[i]
        d == Debug(m, scope, call.pos, v)
    IN  IF d.st # "ok" THEN d
        ELSE IF call.fn \in Debugs THEN ChainStmts(d.m, scope, typ, stmts, i + 1, v, ac)
        ELSE
        LET chain == Call("EmitChainStmt", <<d.m, scope, typ, call, ac>>)
        IN  IF chain.st # "ok" THEN chain
            ELSE
            LET a == Call("ApplyChain", <<chain.m, scope, call, chain.v, v, ac>>)
            IN  IF a.st # "ok" THEN a
                ELSE
                ChainStmts(ChainAlias(a.m, ac, call, a.v), scope, typ, stmts, i + 1,
                           a.v, ac)

\* emitBlock
EmitBlock(m, scope, typ, stmts, ac) ==
    LET v0 == Identity(typ)
        lead == Call("LeadingDebugs", <<m, scope, stmts, 1, v0>>)
    IN  IF lead.st # "ok" THEN lead
        ELSE IF Len(stmts) = 0 THEN Panic(lead.m, "index out of range")
        ELSE
        LET index == lead.v.n
            sourceStmt == stmts[index]
            src == Call("SourceStmt", <<lead.m, scope, typ, sourceStmt, v0, ac>>)
        IN  IF src.st # "ok" THEN src
            ELSE Call("ChainStmts",
                    <<SourceAlias(src.m, ac, sourceStmt, src.v), scope, typ, stmts,
                            index + 1, src.v, ac>>)

\* The function named f called with the arguments a.
Call(f, a) ==
    CASE f = "Sprintf" -> Sprintf(a[1], a[2])
      [] f = "EmitFilesystemBlock" -> EmitFilesystemBlock(a[1], a[2], a[3], a[4])
      [] f = "EmitStringBlock" -> EmitStringBlock(a[1], a[2], a[3])
      [] f = "EmitFuncLit" -> EmitFuncLit(a[1], a[2], a[3], a[4], a[5])
      [] f = "EmitFuncDecl" -> EmitFuncDecl(a[1], a[2], a[3], a[4], a[5], a[6])
      [] f = "EmitAliasDecl" -> EmitAliasDecl(a[1], a[2], a[3], a[4])
      [] f = "EmitStringExpr" -> EmitStringExpr(a[1], a[2], a[3], a[4])
      [] f = "EmitStringExprs" -> EmitStringExprs(a[1], a[2], a[3], a[4], a[5], a[6])
      [] f = "EmitFilesystemExpr" -> EmitFilesystemExpr(a[1], a[2], a[3], a[4], a[5])
      [] f = "EmitOptionExpr" -> EmitOptionExpr(a[1], a[2], a[3], a[4], a[5])
      [] f = "DefaultOptionStmt" -> DefaultOptionStmt(a[1], a[2], a[3], a[4], a[5])
      [] f = "StringOption" -> StringOption(a[1], a[2], a[3], a[4], a[5])
      [] f = "StringPairOption" -> StringPairOption(a[1], a[2], a[3], a[4], a[5])
      [] f = "StringsOption" -> StringsOption(a[1], a[2], a[3], a[4], a[5])
      [] f = "CreatedTimeOption" -> CreatedTimeOption(a[1], a[2], a[3], a[4])
      [] f = "EmitImageOptions" -> EmitImageOptions(a[1], a[2], a[3], a[4], a[5])
      [] f = "EmitHTTPOptions" -> EmitHTTPOptions(a[1], a[2], a[3], a[4], a[5])
      [] f = "EmitGitOptions" -> EmitGitOptions(a[1], a[2], a[3], a[4], a[5])
      [] f = "EmitLocalOptions" -> EmitLocalOptions(a[1], a[2], a[3], a[4], a[5])
      [] f = "EmitGenerateOptions" -> EmitGenerateOptions(a[1], a[2], a[3], a[4], a[5], a[6])
      [] f = "EmitMkdirOptions" -> EmitMkdirOptions(a[1], a[2], a[3], a[4], a[5])
      [] f = "EmitMkfileOptions" -> EmitMkfileOptions(a[1], a[2], a[3], a[4], a[5])
      [] f = "EmitRmOptions" -> EmitRmOptions(a[1], a[2], a[3], a[4], a[5])
      [] f = "EmitCopyOptions" -> EmitCopyOptions(a[1], a[2], a[3], a[4], a[5])
      [] f = "SetSocketField" -> SetSocketField(a[1], a[2], a[3], a[4], a[5])
      [] f = "EmitSSHOptions" -> EmitSSHOptions(a[1], a[2], a[3], a[4], a[5])
      [] f = "EmitSecretOptions" -> EmitSecretOptions(a[1], a[2], a[3], a[4], a[5])
      [] f = "EmitMountOptions" -> EmitMountOptions(a[1], a[2], a[3], a[4], a[5])
      [] f = "EmitExecOptions" -> EmitExecOptions(a[1], a[2], a[3], a[4], a[5], a[6])
      [] f = "OptionStmt" -> OptionStmt(a[1], a[2], a[3], a[4], a[5], a[6])
      [] f = "OptionStmts" -> OptionStmts(a[1], a[2], a[3], a[4], a[5], a[6], a[7])
      [] f = "EmitOptions" -> EmitOptions(a[1], a[2], a[3], a[4], a[5])
      [] f = "EmitWithOption" -> EmitWithOption(a[1], a[2], a[3], a[4], a[5])
      [] f = "WithOption" -> WithOption(a[1], a[2], a[3], a[4])
      [] f = "EmitFilesystemSourceStmt" -> EmitFilesystemSourceStmt(a[1], a[2], a[3], a[4])
      [] f = "EmitStringSourceStmt" -> EmitStringSourceStmt(a[1], a[2], a[3], a[4])
      [] f = "EmitSourceStmt" -> EmitSourceStmt(a[1], a[2], a[3], a[4], a[5])
      [] f = "AliasedMounts" -> AliasedMounts(a[1], a[2], a[3], a[4], a[5], a[6])
      [] f = "RunShlex" -> RunShlex(a[1], a[2], a[3])
      [] f = "EmitFilesystemChainStmt" -> EmitFilesystemChainStmt(a[1], a[2], a[3], a[4], a[5])
      [] f = "EmitChainStmt" -> EmitChainStmt(a[1], a[2], a[3], a[4], a[5])
      [] f = "MountCallbacks" -> MountCallbacks(a[1], a[2], a[3], a[4], a[5])
      [] f = "StateOption" -> StateOption(a[1], a[2], a[3], a[4])
      [] f = "ApplyChain" -> ApplyChain(a[1], a[2], a[3], a[4], a[5], a[6])
      [] f = "SourceStmt" -> SourceStmt(a[1], a[2], a[3], a[4], a[5], a[6])
      [] f = "LeadingDebugs" -> LeadingDebugs(a[1], a[2], a[3], a[4], a[5])
      [] f = "ChainStmts" -> ChainStmts(a[1], a[2], a[3], a[4], a[5], a[6], a[7])
      [] f = "EmitBlock" -> EmitBlock(a[1], a[2], a[3], a[4], a[5])

(***************************************************************************)
(* Generate.                                                               *)
(***************************************************************************)
\* CodeGenOption values: WithDebugger(dbgr), and an option of the caller
\* that returns an error.
WithDebugger(dbgr) == [k |-> "WithDebugger", failAt |-> dbgr]
FailingOption == [k |-> "failing"]

\* The loop over the options, were it to go on after an option's error.
RECURSIVE ApplyOptionsAll(_, _, _)
ApplyOptionsAll(m, os, i) ==
    IF i > Len(os) THEN Ok(m, NilVal)
    ELSE IF os[i].k = "WithDebugger"
         THEN ApplyOptionsAll([m EXCEPT !.failAt = os[i].failAt], os, i + 1)
    ELSE Err(ApplyOptionsAll(m, os, i + 1).m, "option")

\* The loop of Generate over its options, from option i on.
RECURSIVE ApplyOptions(_, _, _)
ApplyOptions(m, os, i) ==
    IF i > Len(os) THEN Ok(m, NilVal)
    ELSE IF os[i].k = "WithDebugger"
         THEN ApplyOptions([m EXCEPT !.failAt = os[i].failAt], os, i + 1)
    ELSE Err(m, "option")

\* emitFilesystemFuncDecl and emitFilesystemAliasDecl: the declaration
\* evaluated as a filesystem.
EmitFilesystemFuncDecl(m, scope, n, call, ac) == EmitFuncDecl(m, scope, n, call, "", ac)
EmitFilesystemAliasDecl(m, scope, n, call) == EmitAliasDecl(m, scope, n, call)

\* What Generate hands back: the state, the info and the error ("" is nil),
\* or a panic.
Return(st, m, err) == [status |-> IF err = "" THEN "ok" ELSE "err", st |-> st,
                       err |-> err, info |-> m]
Returned(r) ==
    IF r.st = "panic" THEN [status |-> "panic", st |-> Scratch, err |-> r.e, info |-> r.m]
    ELSE IF r.st = "err" THEN Return(Scratch, r.m, r.e)
    ELSE IF r.v.t # "fs" THEN [status |-> "panic", st |-> Scratch,
                               err |-> "interface conversion", info |-> r.m]
    ELSE Return(r.v.fs, r.m, "")

FileNode == 1

GenerateOp(name, os, seed) ==
    LET st == Scratch
        info == ApplyOptions(NewInfo(0, seed), os, 1)
        obj == Lookup("file", name)
    IN  IF info.st # "ok" THEN Return(st, info.m, info.e)
        ELSE IF obj.kind = "nil" THEN Return(st, info.m, "unknown target")
        ELSE
        LET d == Debug(info.m, "file", FileNode, NilVal)
        IN  IF d.st # "ok" THEN Return(st, d.m, d.e)
            ELSE IF obj.kind = "decl"
            THEN IF obj.node = "FuncDecl"
                 THEN IF TypeOf(obj.typ) # Filesystem
                      THEN Return(st, d.m, "ErrInvalidTarget")
                      ELSE Returned(EmitFilesystemFuncDecl(d.m, "file", obj, name,
                                                           noopAliasCallback))
                 ELSE IF obj.node = "AliasDecl"
                 THEN IF TypeOf(obj.typ) # Filesystem
                      THEN Return(st, d.m, "ErrInvalidTarget")
                      ELSE Returned(EmitFilesystemAliasDecl(d.m, "file", obj, name))
                 ELSE Return(st, d.m, "")
            ELSE Return(st, d.m, "ErrInvalidTarget")

(***************************************************************************)
(* The programs of the model.                                              *)
(***************************************************************************)
RECURSIVE RelocStmt(_, _)
RECURSIVE RelocExpr(_, _)
RelocStmts(stmts, base) == [j \in 1..Len(stmts) |-> RelocStmt(stmts[j], base)]
RelocExpr(e, base) ==
    IF e.k = "funclit" THEN [e EXCEPT !.body = RelocStmts(e.body, base)] ELSE e
\* The statement s moved to position base: every node of it gets its own pos.
RelocStmt(s, base) ==
    [k |-> s.k, fn |-> s.fn, alias |-> s.alias, pos |-> s.pos + base,
     args |-> [j \in 1..Len(s.args) |-> RelocExpr(s.args[j], base)],
     with |-> IF s.with.k = "funclit"
              THEN WithFuncLit(RelocStmts(s.with.body, base)) ELSE s.with]

B1 == <<"b">>
AA == <<"a", SP, "a">>

Stmt0(fn, args) == CallStmt(fn, args, NoWith, "", 0)
Opt(fn, args, alias, pos) == CallStmt(fn, args, NoWith, alias, pos)

Breakpoint == Stmt0("breakpoint", <<>>)

ScratchStmt == Stmt0("scratch", <<>>)
ImageStmt ==
    CallStmt("image", <<StrLit(A1)>>, WithFuncLit(<<Opt("resolve", <<>>, "", 1)>>), "", 0)
LocalStmt ==
    CallStmt("local", <<StrLit(B1)>>,
             WithFuncLit(<<Opt("includePatterns", <<StrLit(A1)>>, "", 1)>>), "l", 0)
SrcStmt == Stmt0("src", <<>>)

EnvStmt == Stmt0("env", <<StrLit(A1), StrLit(B1)>>)
\* Two aliased mounts on the same target.
RunSameStmt ==
    CallStmt("run", <<StrLit(AA)>>,
             WithFuncLit(<< Opt("mount", <<IdentExpr("scratch"), StrLit(A1)>>, "m1", 1),
                            Opt("mount", <<IdentExpr("src"), StrLit(A1)>>, "m2", 2) >>),
             "r", 0)
\* Aliased mounts on two targets, a mount without alias and a flag.
RunStmt ==
    CallStmt("run", <<IdentExpr("word")>>,
             WithFuncLit(<< Opt("mount", <<IdentExpr("scratch"), StrLit(A1)>>, "m1", 1),
                            Opt("readonlyRootfs", <<>>, "", 2),
                            Opt("mount", <<IdentExpr("src"), StrLit(<<"c">>)>>, "", 3),
                            Opt("mount", <<FuncLitExpr(Filesystem,
                                              <<Opt("breakpoint", <<>>, "", 5),
                                                Opt("image", <<StrLit(B1)>>, "i", 6)>>),
                                           StrLit(B1)>>, "m2", 4) >>),
             "", 0)
MkdirStmt ==
    CallStmt("mkdir", <<StrLit(A1), IntLit(493)>>,
             WithFuncLit(<<Opt("createParents", <<>>, "", 1)>>), "d", 0)

Sources == {ScratchStmt, ImageStmt, LocalStmt, SrcStmt}
Chains == {EnvStmt, RunSameStmt, RunStmt, MkdirStmt, SrcStmt}

RECURSIVE SeqsUpTo(_, _)
SeqsUpTo(S, n) ==
    IF n = 0 THEN {<<>>}
    ELSE LET T == SeqsUpTo(S, n - 1)
         IN  T \cup {Append(t, x) : t \in {u \in T : Len(u) = n - 1}, x \in S}

\* The statement lists of at most n statements: debug statements anywhere,
\* a source statement first among the others, chain statements after it.
Blocks(n) ==
    LET lead == SeqsUpTo({Breakpoint}, n)
        rest == SeqsUpTo(Chains \cup {Breakpoint}, n)
        all == lead \cup {d \o <<s>> \o c : d \in lead, s \in Sources, c \in rest}
    IN  {x \in all : Len(x) <= n}

\* One statement for each of the other builtins that take options.
HttpStmt ==
    CallStmt("http", <<StrLit(A1)>>,
             WithFuncLit(<< Opt("checksum", <<StrLit(A1)>>, "", 1),
                            Opt("filename", <<StrLit(B1)>>, "", 2) >>), "", 0)
GitStmt ==
    CallStmt("git", <<StrLit(A1), StrLit(B1)>>,
             WithFuncLit(<<Opt("keepGitDir", <<>>, "", 1)>>), "", 0)
GenerateStmt ==
    CallStmt("generate", <<FuncLitExpr(Filesystem, <<Opt("image", <<StrLit(A1)>>, "", 2)>>)>>,
             WithFuncLit(<<Opt("frontendOpt", <<StrLit(A1), StrLit(B1)>>, "", 1)>>), "", 0)
MkfileStmt ==
    CallStmt("mkfile", <<StrLit(A1), IntLit(420), StrLit(B1)>>,
             WithFuncLit(<<Opt("chown", <<StrLit(A1)>>, "", 1)>>), "", 0)
RmStmt ==
    CallStmt("rm", <<StrLit(A1)>>,
             WithFuncLit(<< Opt("allowNotFound", <<>>, "", 1),
                            Opt("allowWildcard", <<BoolLit(FALSE)>>, "", 2) >>), "", 0)
CopyStmt ==
    CallStmt("copy", <<IdentExpr("src"), StrLit(A1), StrLit(B1)>>,
             WithFuncLit(<< Opt("followSymlinks", <<>>, "", 1),
                            Opt("chown", <<StrLit(A1)>>, "", 2) >>), "", 0)
DirStmt == Stmt0("dir", <<StrLit(A1)>>)
UserStmt == Stmt0("user", <<StrLit(A1)>>)
EntrypointStmt == Stmt0("entrypoint", <<StrLit(A1), StrLit(B1)>>)
\* run with a referenced option list.
RunIdentStmt == CallStmt("run", <<StrLit(A1)>>, WithIdent("opts"), "r", 0)

WideSources == {HttpStmt, GitStmt, GenerateStmt}
WideChains ==
    {MkfileStmt, RmStmt, CopyStmt, DirStmt, UserStmt, EntrypointStmt, RunIdentStmt}

WideBlocks ==
    {<<s>> : s \in WideSources} \cup {<<Breakpoint, s>> : s \in WideSources}
        \cup {<<ScratchStmt, k>> : k \in WideChains}

\* The statements of a list placed at positions 100, 200, ...
Place(stmts) == [j \in 1..Len(stmts) |-> RelocStmt(stmts[j], 100 * j)]

Seeds == {"s1", "s2"}

Debuggers == {<<>>} \cup {<<WithDebugger(n)>> : n \in 0..MaxFailAt}

\* Programs: every body of at most MaxStmts statements, called through the
\* target `default`, with and without a debugger.
Init ==
    /\ body \in {Place(b) : b \in Blocks(MaxStmts) \cup WideBlocks}
    /\ targetCall = "default"
    /\ genOpts \in Debuggers
    /\ runs = <<>>
    /\ cst = NoNode
    /\ out = <<>>

TargetNames ==
    {"default", "src", "build", "word", "greet", "cacheMounts", "binary", "cache", "npm",
     "opts", "missing"}

\* Targets: every name of the file scope and a name it does not bind, with
\* every option list of the caller.
InitTarget ==
    /\ body \in {Place(b) : b \in Blocks(1)}
    /\ targetCall \in TargetNames
    /\ genOpts \in Debuggers \cup {<<FailingOption>>, <<WithDebugger(1), FailingOption>>,
                                   <<FailingOption, WithDebugger(1)>>,
                                   <<WithDebugger(0), WithDebugger(1)>>,
                                   <<WithDebugger(1), WithDebugger(0)>>,
                                   <<WithDebugger(1), FailingOption, WithDebugger(2)>>}
    /\ runs = <<>>
    /\ cst = NoNode
    /\ out = <<>>

RunOf(args) == CallStmt("run", args, NoWith, "", 0)

RunArgs ==
    {<<StrLit(str)>> : str \in StringsUpTo(MaxLen)}
        \cup {<<IdentExpr("word")>>, <<IdentExpr("greet")>>}

\* Commands: run with every command string of at most MaxLen characters.
InitRun ==
    /\ body \in {Place(<<ScratchStmt, RunOf(args)>>) : args \in RunArgs}
    /\ targetCall = "default"
    /\ genOpts = <<>>
    /\ runs = <<>>
    /\ cst = NoNode
    /\ out = <<>>

\* run with two arguments, and with three arguments and a with block.
RunsOfArgs ==
    LET strs == StringsUpTo(MaxArgLen)
        two == {<<StrLit(x), StrLit(y)>> : x, y \in strs} \cup {<<StrLit(A1), StrLit(AA)>>}
        three == {<<StrLit(A1), IdentExpr("greet"), StrLit(x)>> : x \in strs}
        with == WithFuncLit(<<Opt("readonlyRootfs", <<>>, "", 1),
                              Opt("dir", <<StrLit(A1)>>, "", 2)>>)
    IN  {CallStmt("run", args, NoWith, "", 0) : args \in two}
            \cup {CallStmt("run", args, with, "", 0) :
                      args \in three \cup {<<StrLit(A1), StrLit(AA)>>}}

\* Argument lists: run with every pair of strings of at most MaxArgLen
\* characters, and with "a" "a a".
InitArgs ==
    /\ body \in {Place(<<ImageStmt, stmt>>) : stmt \in RunsOfArgs}
    /\ targetCall = "default"
    /\ genOpts = <<>>
    /\ runs = <<>>
    /\ cst = NoNode
    /\ out = <<>>

\* The strings given to the options that name a mode.
ModeStrs ==
    {<<"unset">>, <<"host">>, <<"node">>, <<"none">>, <<"sandbox">>, <<"insecure">>,
     <<"shared">>, <<"private">>, <<"locked">>, A1}

\* run with one option that names a mode: network, security, or the cache
\* sharing of a mount.
ModeOptions ==
    {Opt(fn, <<StrLit(str)>>, "", 1) : fn \in {"network", "security"}, str \in ModeStrs}
        \cup {CallStmt("mount", <<IdentExpr("scratch"), StrLit(A1)>>,
                       WithFuncLit(<<Opt("cache", <<StrLit(A1), StrLit(str)>>, "", 2)>>),
                       "", 1) : str \in ModeStrs}

RunWith(stmts) == CallStmt("run", <<StrLit(A1)>>, WithFuncLit(stmts), "", 0)

\* Options: run with one option statement, with and without a debugger.
InitOptions ==
    /\ body \in {Place(<<ImageStmt, RunWith(<<o>>)>>) : o \in ModeOptions}
    /\ targetCall = "default"
    /\ genOpts \in Debuggers
    /\ runs = <<>>
    /\ cst = NoNode
    /\ out = <<>>

\* Statements whose evaluation returns an error: a command that does not
\* split, a timestamp that does not parse, and a mount whose block fails.
BadRunStmt == CallStmt("run", <<StrLit(<<SQ>>)>>, NoWith, "r", 0)
BadTimeStmt ==
    CallStmt("mkdir", <<StrLit(A1), IntLit(493)>>,
             WithFuncLit(<<Opt("createdTime", <<StrLit(A1)>>, "", 1)>>), "d", 0)
BadMountStmt ==
    CallStmt("run", <<StrLit(A1)>>,
             WithFuncLit(<<Opt("mount", <<FuncLitExpr(Filesystem,
                                             <<Opt("scratch", <<>>, "", 2),
                                               Opt("run", <<StrLit(<<DQ>>)>>, "", 3),
                                               Opt("env", <<StrLit(A1), StrLit(B1)>>, "e", 4)>>),
                                          StrLit(A1)>>, "m1", 1)>>),
             "r", 0)
BadStmts == {BadRunStmt, BadTimeStmt, BadMountStmt}

\* The error a failing statement returns.
ErrorOf(stmt) ==
    IF stmt.fn = "mkdir" THEN "parsing time"
    ELSE IF stmt.with.k = "nil" THEN "UnterminatedSingleQuote"
    ELSE "UnterminatedDoubleQuote"

FailBlocks ==
    {<<src>> \o c : src \in {ImageStmt, LocalStmt},
                    c \in SeqsUpTo(BadStmts \cup {EnvStmt, MkdirStmt, Breakpoint},
                                   MaxStmts - 1)}

\* Failures: bodies with failing statements, with and without a debugger
\* that fails.
InitFail ==
    /\ body \in {Place(b) : b \in FailBlocks}
    /\ targetCall = "default"
    /\ genOpts \in Debuggers
    /\ runs = <<>>
    /\ cst = NoNode
    /\ out = <<>>

\* Named options: run with an identifier as its with clause, for each
\* name of options in scope.
OptionNames == {"opts", "mounts", "cacheMounts", "args"}
InitWith ==
    /\ body \in {Place(<<src, CallStmt("run", <<StrLit(str)>>, WithIdent(name), alias, 0)>>) :
                    src \in {ScratchStmt, ImageStmt}, str \in StringsUpTo(MaxArgLen),
                    name \in OptionNames, alias \in {"", "r"}}
    /\ targetCall = "default"
    /\ genOpts \in Debuggers
    /\ runs = <<>>
    /\ cst = NoNode
    /\ out = <<>>

\* Inputs that may be malformed: a createdTime option of mkdir, mkfile and
\* copy, and the command of run, over every short string and the one
\* well-formed timestamp.
TimedStmt(fn, str) ==
    CallStmt(fn,
             CASE fn = "mkdir" -> <<StrLit(A1), IntLit(493)>>
               [] fn = "mkfile" -> <<StrLit(A1), IntLit(420), StrLit(B1)>>
               [] fn = "copy" -> <<IdentExpr("scratch"), StrLit(A1), StrLit(B1)>>,
             WithFuncLit(<<Opt("createdTime", <<StrLit(str)>>, "", 1)>>), "", 0)
InitMalformed ==
    /\ body \in {Place(<<src, stmt>>) :
                    src \in {ScratchStmt, ImageStmt},
                    stmt \in {TimedStmt(fn, str) : fn \in {"mkdir", "mkfile", "copy"},
                                                   str \in StringsUpTo(MaxArgLen)
                                                             \cup {ValidTime}}
                               \cup {RunOf(<<StrLit(str)>>) : str \in StringsUpTo(MaxArgLen)}}
    /\ targetCall = "default"
    /\ genOpts \in Debuggers
    /\ runs = <<>>
    /\ cst = NoNode
    /\ out = <<>>

\* Frontends: generate as the source statement, without a with clause and
\* with up to two frontend options, alone and followed by a statement.
FrontendOptions ==
    {Opt("frontendOpt", <<StrLit(k), StrLit(v)>>, "", 1) : k \in {A1, B1}, v \in {A1, B1}}
        \cup {Opt("frontendInput", <<StrLit(A1), IdentExpr("scratch")>>, "", 1)}
GenerateWith(frontend, with) == CallStmt("generate", <<frontend>>, with, "", 0)
InitGenerate ==
    /\ body \in {Place(<<GenerateWith(frontend, with)>> \o rest) :
                    frontend \in {IdentExpr("scratch"),
                                  FuncLitExpr(Filesystem, <<Opt("image", <<StrLit(A1)>>, "", 9)>>)},
                    with \in {NoWith} \cup {WithFuncLit(o) : o \in SeqsUpTo(FrontendOptions, 2)},
                    rest \in {<<>>, <<EnvStmt>>}}
    /\ targetCall = "default"
    /\ genOpts \in Debuggers
    /\ runs = <<>>
    /\ cst = NoNode
    /\ out = <<>>

\* Flags: each boolean flag option without argument, with true and with
\* false, alone and two in a block, in the statements that take them.
FlagsOf(names) ==
    {Opt(fn, args, "", 1) : fn \in names, args \in {<<>>, <<BoolLit(TRUE)>>, <<BoolLit(FALSE)>>}}
WithFlags(names) == {WithFuncLit(o) : o \in SeqsUpTo(FlagsOf(names), 2)}
FlagSources ==
    {CallStmt("image", <<StrLit(A1)>>, w, "", 0) : w \in WithFlags({"resolve"})}
        \cup {CallStmt("git", <<StrLit(A1), StrLit(B1)>>, w, "", 0) :
                  w \in WithFlags({"keepGitDir"})}
FlagChains ==
    {CallStmt("run", <<StrLit(A1)>>, w, "", 0) : w \in WithFlags({"readonlyRootfs"})}
        \cup {CallStmt("run", <<StrLit(A1)>>,
                       WithFuncLit(<<CallStmt("mount", <<IdentExpr("scratch"), StrLit(A1)>>,
                                              w, "", 1)>>), "", 0) :
                  w \in WithFlags({"readonly", "tmpfs"})}
        \cup {CallStmt("mkdir", <<StrLit(A1), IntLit(493)>>, w, "", 0) :
                  w \in WithFlags({"createParents"})}
        \cup {CallStmt("rm", <<StrLit(A1)>>, w, "", 0) :
                  w \in WithFlags({"allowNotFound", "allowWildcard"})}
InitFlags ==
    /\ body \in {Place(<<src, EnvStmt>>) : src \in FlagSources}
                  \cup {Place(<<ScratchStmt, chain>>) : chain \in FlagChains}
    /\ targetCall = "default"
    /\ genOpts \in Debuggers
    /\ runs = <<>>
    /\ cst = NoNode
    /\ out = <<>>

\* Copies: copy with every block of at most two statements among the six
\* flags (without argument, true, false), chown and createdTime.
CopyOptions ==
    FlagsOf(DOMAIN CopyFlags)
        \cup {Opt("chown", <<StrLit(str)>>, "", 1) : str \in {A1, B1}}
        \cup {Opt("createdTime", <<StrLit(ValidTime)>>, "", 1)}
InitCopy ==
    /\ body \in {Place(<<ScratchStmt,
                         CallStmt("copy", <<IdentExpr("scratch"), StrLit(A1), StrLit(B1)>>,
                                  WithFuncLit(o), "", 0)>>) : o \in SeqsUpTo(CopyOptions, 2)}
    /\ targetCall = "default"
    /\ genOpts \in Debuggers
    /\ runs = <<>>
    /\ cst = NoNode
    /\ out = <<>>

\* Sockets: run with an ssh or a secret option whose block has at most
\* MaxSocketStmts statements among id and the fields.
MaxSocketStmts == 3
SecretOptions ==
    {Opt(fn, <<IntLit(n)>>, "", 1) : fn \in {"uid", "mode"}, n \in {0, 1}}
        \cup {Opt("gid", <<IntLit(2)>>, "", 1)}
        \cup {Opt("id", <<StrLit(str)>>, "", 1) : str \in {A1, B1}}
SSHOptions == SecretOptions \cup {Opt("target", <<StrLit(str)>>, "", 1) : str \in {A1, B1}}
SocketStmts ==
    {CallStmt("ssh", <<>>, WithFuncLit(o), "", 1) : o \in SeqsUpTo(SSHOptions, MaxSocketStmts)}
        \cup {CallStmt("secret", <<StrLit(A1)>>, WithFuncLit(o), "", 1) :
                  o \in SeqsUpTo(SecretOptions, MaxSocketStmts)}
InitSocket ==
    /\ body \in {Place(<<ScratchStmt,
                         CallStmt("run", <<StrLit(A1)>>, WithFuncLit(<<o>>), "", 0)>>) :
                     o \in SocketStmts}
    /\ targetCall = "default"
    /\ genOpts \in {<<>>, <<WithDebugger(MaxFailAt)>>}
    /\ runs = <<>>
    /\ cst = NoNode
    /\ out = <<>>

\* Aliases: a source statement that calls a user-defined function (build
\* aliases a mount in its body) or a builtin, with a string block that
\* aliases its statement or without, then no statement or an env; at most
\* one of the statements is aliased `mine`; the target is default or mine.
InnerBlock == FuncLitExpr(Str, <<CallStmt("value", <<StrLit(A1)>>, NoWith, "inner", 2)>>)
AliasSources ==
    {Stmt0("build", <<>>), SrcStmt, ScratchStmt, Stmt0("image", <<StrLit(A1)>>),
     Stmt0("image", <<InnerBlock>>)}
AliasChains == {EnvStmt, Stmt0("env", <<StrLit(A1), InnerBlock>>)}
As(stmt, name) == [stmt EXCEPT !.alias = name]
AliasBodies ==
    {<<As(s, a)>> : s \in AliasSources, a \in {"", "mine"}}
        \cup {<<As(s, a[1]), As(ch, a[2])>> :
                  s \in AliasSources, ch \in AliasChains,
                  a \in {<<"", "">>, <<"mine", "">>, <<"", "mine">>, <<"other", "mine">>}}
InitAlias ==
    /\ body \in {Place(b) : b \in AliasBodies}
    /\ targetCall \in {"default", "mine"}
    /\ genOpts \in Debuggers
    /\ runs = <<>>
    /\ cst = NoNode
    /\ out = <<>>

\* A first call of Generate on the file.
Generate ==
    /\ runs = <<>>
    /\ \E seed \in Seeds : runs' = <<GenerateOp(targetCall, genOpts, seed)>>
    /\ UNCHANGED <<body, targetCall, genOpts, cst, out>>

\* A second call of Generate on the same file and target, no debugger
\* installed.
GenerateAgain ==
    /\ Len(runs) = 1
    /\ genOpts = <<>>
    /\ \E seed \in Seeds : runs' = Append(runs, GenerateOp(targetCall, genOpts, seed))
    /\ UNCHANGED <<body, targetCall, genOpts, cst, out>>

Next == Generate \/ GenerateAgain

(***************************************************************************)
(* Numeric literals.  An int64 that is not negative is the sequence of its *)
(* binary digits, most significant first, without leading zeros.           *)
(***************************************************************************)
BitSize == 64
MaxDigits == 3

RECURSIVE Strip(_)
Strip(bits) == IF bits # <<>> /\ Head(bits) = 0 THEN Strip(Tail(bits)) ELSE bits

\* The value of a digit character of [a-fA-F0-9].
HexLower == <<"0", "1", "2", "3", "4", "5", "6", "7", "8", "9", "a", "b", "c", "d", "e", "f">>
HexUpper == <<"0", "1", "2", "3", "4", "5", "6", "7", "8", "9", "A", "B", "C", "D", "E", "F">>
DigitVal(ch) == CHOOSE d \in 0..15 : HexLower[d + 1] = ch \/ HexUpper[d + 1] = ch

\* The number of binary digits of one digit in base 2, 8 or 16.
BitsPer(base) == CASE base = 2 -> 1 [] base = 8 -> 3 [] base = 16 -> 4

\* n * base + d
Shift(n, base, d) ==
    Strip(n \o [i \in 1..BitsPer(base) |-> (d \div (2 ^ (BitsPer(base) - i))) % 2])

\* strconv.ParseUint(s, base, 64) from character i on, n accumulated.
RECURSIVE ParseUintFrom(_, _, _, _)
ParseUintFrom(str, base, i, n) ==
    IF i > Len(str) THEN [v |-> n, err |-> ""]
    ELSE IF DigitVal(str[i]) >= base THEN [v |-> <<>>, err |-> "ErrSyntax"]
    ELSE IF Len(n) > BitSize - BitsPer(base)
    THEN [v |-> [j \in 1..BitSize |-> 1], err |-> "ErrRange"]
    ELSE ParseUintFrom(str, base, i + 1, Shift(n, base, DigitVal(str[i])))

ParseUint(str, base) ==
    IF str = <<>> THEN [v |-> <<>>, err |-> "ErrSyntax"] ELSE ParseUintFrom(str, base, 1, <<>>)

\* strconv.ParseInt without the check of the sign bit.
ParseIntUnsigned(str, base) == ParseUint(str, base)

\* strconv.ParseInt(s, base, 64) of a string without a sign.
ParseInt(str, base) ==
    LET un == ParseUint(str, base)
    IN  IF un.err = "ErrSyntax" THEN un
        ELSE IF Len(un.v) >= BitSize
        THEN [v |-> [j \in 1..(BitSize - 1) |-> 1], err |-> "ErrRange"]
        ELSE un

\* A NumericLit before Capture.
NumericLit == [kind |-> "NumericLit", Pos |-> NoPos, Value |-> <<>>, Base |-> 0]

\* NumericLit.Capture: the literal afterwards and the error returned.
Capture(l, tokens) ==
    LET n == tokens[1]
        base == IF Len(n) >= 2
                THEN CASE n[2] \in {"b", "B"} -> 2
                       [] n[2] \in {"o", "O"} -> 8
                       [] n[2] \in {"x", "X"} -> 16
                       [] OTHER -> 10
                ELSE 10
        digits == IF Len(n) >= 2 THEN SubSeq(n, 3, Len(n)) ELSE n
        num == ParseInt(digits, base)
    IN  [l |-> [l EXCEPT !.Value = num.v, !.Base = base], err |-> num.err]

\* Tokens of the lexer's Numeric pattern: short ones over a few digits, and
\* long ones around the limits of 64 bits.
Repeat(ch, k) == [i \in 1..k |-> ch]
FewDigits == {"0", "1", "5", "7", "8", "f", "F"}
LongDigits ==
    {Repeat("1", 63), <<"1">> \o Repeat("0", 63), Repeat("1", 64), Repeat("1", 65),
     Repeat("7", 21), <<"1">> \o Repeat("0", 21), <<"2">> \o Repeat("0", 21),
     <<"0", "0">> \o Repeat("7", 21), Repeat("7", 22),
     <<"7">> \o Repeat("f", 15), <<"8">> \o Repeat("0", 15), Repeat("F", 16),
     <<"0", "7">> \o Repeat("F", 15), <<"1">> \o Repeat("0", 16)}
NumericTokens ==
    {<<"0", letter>> \o digits :
        letter \in {"b", "B", "o", "O", "x", "X"},
        digits \in (SeqsUpTo(FewDigits, MaxDigits) \ {<<>>}) \cup LongDigits}

(***************************************************************************)
(* Syntax trees as the parser builds them: the Pos of a node is the        *)
(* position of its first token.  Each builder returns the node n and the   *)
(* position p of the lexer after the node's last token.                    *)
(***************************************************************************)
NL == "\n"
MaxPad == 1

\* The lexer's position after the text s read at pos.
RECURSIVE Adv(_, _)
Adv(pos, s) ==
    IF s = <<>> THEN pos
    ELSE Adv(IF Head(s) = NL
             THEN [pos EXCEPT !.Offset = @ + 1, !.Line = @ + 1, !.Column = 1]
             ELSE shiftPosition(pos, AtomLen(Head(s)), 0),
             Tail(s))
Sp(pos) == Adv(pos, <<SP>>)

IdentAt(name, p) == [n |-> [kind |-> "Ident", Pos |-> p, Name |-> name], p |-> Adv(p, name)]
TypeLay(objType, p) == [n |-> TypeAt(objType, p), p |-> Adv(p, objType)]
KeywordAt(kind, word, p) ==
    [n |-> [kind |-> kind, Pos |-> p, Keyword |-> word], p |-> Adv(p, word)]
NewlineAt(p) ==
    [n |-> [kind |-> "Newline", Pos |-> p, Text |-> <<NL>>], p |-> Adv(p, <<NL>>)]
CommentAt(text, p) ==
    LET t == <<"#">> \o text \o <<NL>>
    IN  [n |-> [kind |-> "Comment", Pos |-> p, Text |-> t], p |-> Adv(p, t)]
ParenAt(kind, p) == [n |-> [kind |-> kind, Pos |-> p], p |-> Adv(p, <<"(">>)]

WithWord == <<"w", "i", "t", "h">>
AsWord == <<"a", "s">>
VariadicWord == <<"v", "a", "r", "i", "a", "d", "i", "c">>
AB == <<"a", "b">>

RECURSIVE Lay(_, _)

\* variadic string a
FieldAt(p) ==
    LET v == KeywordAt("Variadic", VariadicWord, p)
        t == TypeLay(Str, Sp(v.p))
        nm == IdentAt(A1, Sp(t.p))
    IN  [n |-> [kind |-> "Field", Pos |-> p, Variadic |-> v.n, Type |-> t.n, Name |-> nm.n],
         p |-> nm.p]

\* ( ) and ( variadic string a )
FieldListAt(variadic, p) ==
    LET o == ParenAt("OpenParen", p)
        f == Lay("FieldAt", <<o.p>>)
        c == ParenAt("CloseParen", IF variadic THEN f.p ELSE o.p)
    IN  [n |-> [kind |-> "FieldList", Pos |-> p, OpenParen |-> o.n,
                List |-> IF variadic THEN <<f.n>> ELSE <<>>, CloseParen |-> c.n],
         p |-> c.p]

\* ( fs )
MethodAt(p) ==
    LET o == ParenAt("OpenParen", p)
        t == TypeLay(Filesystem, o.p)
        c == ParenAt("CloseParen", t.p)
    IN  [n |-> [kind |-> "Method", Pos |-> p, OpenParen |-> o.n, Type |-> t.n,
                CloseParen |-> c.n],
         p |-> c.p]

\* One or two comments on consecutive lines.
CommentGroupAt(texts, p) ==
    LET c1 == CommentAt(texts[1], p)
        c2 == CommentAt(texts[Len(texts)], c1.p)
    IN  [n |-> [kind |-> "CommentGroup", Pos |-> p,
                List |-> IF Len(texts) = 1 THEN <<c1.n>> ELSE <<c1.n, c2.n>>],
         p |-> IF Len(texts) = 1 THEN c1.p ELSE c2.p]

\* ; or a newline or a comment
StmtEndAt(end, p) ==
    LET nl == NewlineAt(p)
        c == CommentAt(A1, Sp(p))
        none == [Pos |-> p, Semicolon |-> <<>>, Newline |-> NilNode, Comment |-> NilNode]
    IN  CASE end = "semi" ->
                [n |-> [kind |-> "StmtEnd"] @@ [none EXCEPT !.Semicolon = <<";">>],
                 p |-> Adv(p, <<";">>)]
          [] end = "newline" ->
                [n |-> [kind |-> "StmtEnd"] @@ [none EXCEPT !.Newline = nl.n], p |-> nl.p]
          [] end = "comment" ->
                [n |-> [kind |-> "StmtEnd"]
                          @@ [none EXCEPT !.Pos = c.n.Pos, !.Comment = c.n],
                 p |-> c.p]

\* { stmts }
BlockAt(descs, p) ==
    LET o == ParenAt("OpenBrace", p)
        l == Lay("StmtsAt", <<descs, Sp(o.p)>>)
        c == ParenAt("CloseBrace", l.p)
    IN  [n |-> [kind |-> "BlockStmt", Pos |-> p, OpenBrace |-> o.n, List |-> l.list,
                CloseBrace |-> c.n],
         p |-> c.p]

\* type { stmts }
FuncLitAt(objType, descs, p) ==
    LET t == TypeLay(objType, p)
        b == Lay("BlockAt", <<descs, Sp(t.p)>>)
    IN  [n |-> [kind |-> "FuncLit", Pos |-> p, Type |-> t.n, Body |-> b.n], p |-> b.p]

\* a statement inside a with block: a;
InnerCall == [k |-> "call", arg |-> FALSE, with |-> "none", alias |-> FALSE, end |-> "semi"]

\* with a, with option { a; }
WithOptAt(kind, p) ==
    LET w == KeywordAt("With", WithWord, p)
        i == IdentAt(A1, Sp(w.p))
        f == Lay("FuncLitAt", <<Option, <<InnerCall>>, Sp(w.p)>>)
        none == [kind |-> "WithOpt", Pos |-> p, With |-> w.n, Ident |-> NilNode,
                 FuncLit |-> NilNode]
    IN  IF kind = "ident" THEN [n |-> [none EXCEPT !.Ident = i.n], p |-> i.p]
        ELSE [n |-> [none EXCEPT !.FuncLit = f.n], p |-> f.p]

\* as b
AliasDeclAt(p) ==
    LET a == KeywordAt("As", AsWord, p)
        i == IdentAt(B1, Sp(a.p))
    IN  [n |-> [kind |-> "AliasDecl", Pos |-> p, As |-> a.n, Ident |-> i.n], p |-> i.p]

\* an identifier as an expression
ExprAt(name, p) ==
    LET i == IdentAt(name, p)
    IN  [n |-> [kind |-> "Expr", Pos |-> p, Ident |-> i.n, FuncLit |-> NilNode], p |-> i.p]

\* a [ab] [with ...] [as b] end
CallStmtAt(d, p) ==
    LET fn == IdentAt(A1, p)
        arg == Lay("ExprAt", <<AB, Sp(fn.p)>>)
        p1 == IF d.arg THEN arg.p ELSE fn.p
        with == Lay("WithOptAt", <<d.with, Sp(p1)>>)
        p2 == IF d.with = "none" THEN p1 ELSE with.p
        alias == Lay("AliasDeclAt", <<Sp(p2)>>)
        p3 == IF d.alias THEN alias.p ELSE p2
        end == Lay("StmtEndAt", <<d.end, p3>>)
    IN  [n |-> [kind |-> "CallStmt", Pos |-> p, Func |-> fn.n,
                Args |-> IF d.arg THEN <<arg.n>> ELSE <<>>,
                WithOpt |-> IF d.with = "none" THEN NilNode ELSE with.n,
                Alias |-> IF d.alias THEN alias.n ELSE NilNode,
                StmtEnd |-> end.n],
         p |-> end.p]

\* A statement: a call, a newline or comments.
StmtLay(d, p) ==
    LET none == [kind |-> "Stmt", Pos |-> p, Call |-> NilNode, Newline |-> NilNode,
                 Doc |-> NilNode]
        call == Lay("CallStmtAt", <<d, p>>)
        nl == NewlineAt(p)
        doc == Lay("CommentGroupAt", <<d.texts, p>>)
    IN  CASE d.k = "call" -> [n |-> [none EXCEPT !.Call = call.n], p |-> call.p]
          [] d.k = "newline" -> [n |-> [none EXCEPT !.Newline = nl.n], p |-> nl.p]
          [] d.k = "doc" -> [n |-> [none EXCEPT !.Doc = doc.n], p |-> doc.p]

RECURSIVE StmtsAt(_, _)
StmtsAt(descs, p) ==
    IF descs = <<>> THEN [list |-> <<>>, p |-> p]
    ELSE LET first == Lay("StmtLay", <<Head(descs), p>>)
             rest == StmtsAt(Tail(descs), first.p)
         IN  [list |-> <<first.n>> \o rest.list, p |-> rest.p]

\* type [( fs )] a ( ... ) [{ stmts }]
FuncDeclAt(d, p) ==
    LET t == TypeLay(d.type, p)
        m == Lay("MethodAt", <<Sp(t.p)>>)
        nm == IdentAt(A1, Sp(IF d.method THEN m.p ELSE t.p))
        ps == Lay("FieldListAt", <<d.variadic, nm.p>>)
        b == Lay("BlockAt", <<d.body, Sp(ps.p)>>)
    IN  [n |-> [kind |-> "FuncDecl", Pos |-> p, Type |-> t.n,
                Method |-> IF d.method THEN m.n ELSE NilNode,
                Name |-> nm.n, Params |-> ps.n,
                Body |-> IF d.hasBody THEN b.n ELSE NilNode],
         p |-> IF d.hasBody THEN b.p ELSE ps.p]

\* import a from fs { a; }
ImportDeclAt(p) ==
    LET i == IdentAt(A1, Sp(Adv(p, <<"i", "m", "p", "o", "r", "t">>)))
        f == Lay("FuncLitAt", <<Filesystem, <<InnerCall>>,
                                Sp(Adv(Sp(i.p), <<"f", "r", "o", "m">>))>>)
    IN  [n |-> [kind |-> "ImportDecl", Pos |-> p, Ident |-> i.n, Import |-> f.n], p |-> f.p]

\* export a
ExportDeclAt(p) ==
    LET i == IdentAt(A1, Sp(Adv(p, <<"e", "x", "p", "o", "r", "t">>)))
    IN  [n |-> [kind |-> "ExportDecl", Pos |-> p, Ident |-> i.n], p |-> i.p]

\* A declaration.
DeclAt(d, p) ==
    LET none == [kind |-> "Decl", Pos |-> p, Bad |-> NilNode, Import |-> NilNode,
                 Export |-> NilNode, Func |-> NilNode, Newline |-> NilNode, Doc |-> NilNode]
        func == Lay("FuncDeclAt", <<d, p>>)
        nl == NewlineAt(p)
        doc == Lay("CommentGroupAt", <<d.texts, p>>)
        imp == Lay("ImportDeclAt", <<p>>)
        exp == Lay("ExportDeclAt", <<p>>)
    IN  CASE d.k = "func" -> [n |-> [none EXCEPT !.Func = func.n], p |-> func.p]
          [] d.k = "newline" -> [n |-> [none EXCEPT !.Newline = nl.n], p |-> nl.p]
          [] d.k = "doc" -> [n |-> [none EXCEPT !.Doc = doc.n], p |-> doc.p]
          [] d.k = "import" -> [n |-> [none EXCEPT !.Import = imp.n], p |-> imp.p]
          [] d.k = "export" -> [n |-> [none EXCEPT !.Export = exp.n], p |-> exp.p]
          [] d.k = "bad" ->
                [n |-> [none EXCEPT !.Bad = [kind |-> "BadDecl", Pos |-> p, Bad |-> d.text]],
                 p |-> Adv(p, d.text)]

RECURSIVE DeclsAt(_, _)
DeclsAt(descs, p) ==
    IF descs = <<>> THEN <<>>
    ELSE LET first == Lay("DeclAt", <<Head(descs), p>>)
         IN  <<first.n>> \o DeclsAt(Tail(descs), first.p)

\* The builder named f applied to the arguments a.
Lay(f, a) ==
    CASE f = "FieldAt" -> FieldAt(a[1])
      [] f = "FieldListAt" -> FieldListAt(a[1], a[2])
      [] f = "MethodAt" -> MethodAt(a[1])
      [] f = "CommentGroupAt" -> CommentGroupAt(a[1], a[2])
      [] f = "StmtEndAt" -> StmtEndAt(a[1], a[2])
      [] f = "BlockAt" -> BlockAt(a[1], a[2])
      [] f = "FuncLitAt" -> FuncLitAt(a[1], a[2], a[3])
      [] f = "WithOptAt" -> WithOptAt(a[1], a[2])
      [] f = "AliasDeclAt" -> AliasDeclAt(a[1])
      [] f = "ExprAt" -> ExprAt(a[1], a[2])
      [] f = "CallStmtAt" -> CallStmtAt(a[1], a[2])
      [] f = "StmtLay" -> StmtLay(a[1], a[2])
      [] f = "StmtsAt" -> StmtsAt(a[1], a[2])
      [] f = "FuncDeclAt" -> FuncDeclAt(a[1], a[2])
      [] f = "ImportDeclAt" -> ImportDeclAt(a[1])
      [] f = "ExportDeclAt" -> ExportDeclAt(a[1])
      [] f = "DeclAt" -> DeclAt(a[1], a[2])
      [] f = "DeclsAt" -> DeclsAt(a[1], a[2])

\* The File of a source text that starts with pad blanks.
FileAt(descs, pad) ==
    LET start == Adv(Position("a.hlb", 0, 1, 1), [i \in 1..pad |-> SP])
    IN  [kind |-> "File", Pos |-> start, Doc |-> NilNode,
         Decls |-> Lay("DeclsAt", <<descs, start>>)]

\* The children of a node, in source order.
Opt1(n) == IF n.kind = "nil" THEN <<>> ELSE <<n>>
Children(n) ==
    CASE n.kind = "File" -> n.Decls
      [] n.kind = "Decl" ->
            Opt1(n.Bad) \o Opt1(n.Import) \o Opt1(n.Export) \o Opt1(n.Func)
                \o Opt1(n.Newline) \o Opt1(n.Doc)
      [] n.kind = "ImportDecl" -> <<n.Ident, n.Import>>
      [] n.kind = "ExportDecl" -> <<n.Ident>>
      [] n.kind = "FuncDecl" ->
            <<n.Type>> \o Opt1(n.Method) \o <<n.Name, n.Params>> \o Opt1(n.Body)
      [] n.kind = "Method" -> <<n.OpenParen, n.Type, n.CloseParen>>
      [] n.kind = "FieldList" -> <<n.OpenParen>> \o n.List \o <<n.CloseParen>>
      [] n.kind = "Field" -> Opt1(n.Variadic) \o <<n.Type, n.Name>>
      [] n.kind = "Expr" -> Opt1(n.Ident) \o Opt1(n.FuncLit)
      [] n.kind = "FuncLit" -> <<n.Type, n.Body>>
      [] n.kind = "Stmt" -> Opt1(n.Call) \o Opt1(n.Newline) \o Opt1(n.Doc)
      [] n.kind = "CallStmt" ->
            <<n.Func>> \o n.Args \o Opt1(n.WithOpt) \o Opt1(n.Alias) \o <<n.StmtEnd>>
      [] n.kind = "WithOpt" -> <<n.With>> \o Opt1(n.Ident) \o Opt1(n.FuncLit)
      [] n.kind = "AliasDecl" -> <<n.As, n.Ident>>
      [] n.kind = "StmtEnd" -> Opt1(n.Newline) \o Opt1(n.Comment)
      [] n.kind = "BlockStmt" -> <<n.OpenBrace>> \o n.List \o <<n.CloseBrace>>
      [] n.kind = "CommentGroup" -> n.List
      [] OTHER -> <<>>

\* A node and the nodes below it.
RECURSIVE SubNodes(_)
SubNodes(n) ==
    {n} \cup UNION {SubNodes(Children(n)[i]) : i \in 1..Len(Children(n))}

\* The source texts: statements, declarations, files.
CallDescs ==
    [k : {"call"}, arg : BOOLEAN, with : {"none", "ident", "funclit"}, alias : BOOLEAN,
     end : {"semi", "newline", "comment"}]
TriviaDescs == {[k |-> "newline"]} \cup [k : {"doc"}, texts : {<<<<>>>>, <<A1>>, <<A1, AA>>}]
FewStmts ==
    {[k |-> "call", arg |-> TRUE, with |-> "none", alias |-> FALSE, end |-> e] :
         e \in {"semi", "newline", "comment"}}
        \cup {[k |-> "doc", texts |-> <<A1>>]}
Bodies ==
    {<<>>} \cup {<<d>> : d \in CallDescs \cup TriviaDescs}
        \cup {<<d, e>> : d \in FewStmts, e \in FewStmts}
FuncDescs ==
    [k : {"func"}, type : {Filesystem}, method : {FALSE}, variadic : {FALSE},
     hasBody : {TRUE}, body : Bodies]
        \cup [k : {"func"}, type : {Filesystem, OptionRun}, method : BOOLEAN,
              variadic : BOOLEAN, hasBody : BOOLEAN, body : {<<>>}]
OtherDescs ==
    TriviaDescs \cup {[k |-> "import"], [k |-> "export"]}
        \cup [k : {"bad"}, text : {<<"@">>, <<"@", "a">>}]
FewDecls ==
    OtherDescs
        \cup [k : {"func"}, type : {Filesystem}, method : {FALSE}, variadic : {FALSE},
              hasBody : BOOLEAN, body : {<<>>}]
Files ==
    {FileAt(ds, pad) :
        ds \in {<<>>} \cup {<<d>> : d \in FuncDescs \cup OtherDescs}
                  \cup {<<d, e>> : d \in FewDecls, e \in FewDecls},
        pad \in 0..MaxPad}

\* Nodes: a node of a file the parser built.
InitNodes ==
    /\ body = <<>>
    /\ targetCall = "default"
    /\ genOpts = <<>>
    /\ runs = <<>>
    /\ cst \in UNION {SubNodes(f) : f \in Files}
    /\ out = <<>>

\* A call of End on the node.
NodeEnd ==
    /\ cst.kind \notin {"none", "nil"}
    /\ out = <<>>
    /\ out' = <<[op |-> "End", res |-> End(cst)]>>
    /\ UNCHANGED <<body, targetCall, genOpts, runs, cst>>

\* A call of Position and of End on each child of the node.
ChildEnds ==
    /\ cst.kind \notin {"none", "nil"}
    /\ Children(cst) # <<>>
    /\ out = <<>>
    /\ out' = <<[op |-> "Children",
                 res |-> [i \in 1..Len(Children(cst)) |->
                             [pos |-> PositionOf(Children(cst)[i]),
                              end |-> End(Children(cst)[i])]]]>>
    /\ UNCHANGED <<body, targetCall, genOpts, runs, cst>>

NextNodes == NodeEnd \/ ChildEnds

\* Numerals: a NumericLit the parser is about to fill in.
InitNumeric ==
    /\ body = <<>>
    /\ targetCall = "default"
    /\ genOpts = <<>>
    /\ runs = <<>>
    /\ cst = NumericLit
    /\ out = <<>>

\* The parser captures a Numeric token into the literal.
NumericCapture ==
    /\ cst.kind = "NumericLit"
    /\ out = <<>>
    /\ \E tok \in NumericTokens :
          /\ cst' = Capture(cst, <<tok>>).l
          /\ out' = <<[op |-> "Capture", tok |-> tok, err |-> Capture(cst, <<tok>>).err]>>
    /\ UNCHANGED <<body, targetCall, genOpts, runs>>

NextNumeric == NumericCapture

\* Types: a Type node of each ObjType constant.
InitTypes ==
    /\ body = <<>>
    /\ targetCall = "default"
    /\ genOpts = <<>>
    /\ runs = <<>>
    /\ cst \in {TypeNode(t) : t \in ObjTypes}
    /\ out = <<>>

\* A call of Equals on the node.
TypeEquals ==
    /\ cst.kind = "Type"
    /\ out = <<>>
    /\ \E typ \in ObjTypes : out' = <<[op |-> "Equals", typ |-> typ, res |-> Equals(cst, typ)]>>
    /\ UNCHANGED <<body, targetCall, genOpts, runs, cst>>

NextTypes == TypeEquals

Spec == Init /\ [][Next]_vars
SpecTarget == InitTarget /\ [][Next]_vars
SpecRun == InitRun /\ [][Next]_vars
SpecArgs == InitArgs /\ [][Next]_vars
SpecOptions == InitOptions /\ [][Next]_vars
SpecFail == InitFail /\ [][Next]_vars
SpecWith == InitWith /\ [][Next]_vars
SpecMalformed == InitMalformed /\ [][Next]_vars
SpecGenerate == InitGenerate /\ [][Next]_vars
SpecFlags == InitFlags /\ [][Next]_vars
SpecCopy == InitCopy /\ [][Next]_vars
SpecSocket == InitSocket /\ [][Next]_vars
SpecAlias == InitAlias /\ [][Next]_vars
SpecTypes == InitTypes /\ [][NextTypes]_vars
SpecNodes == InitNodes /\ [][NextNodes]_vars
SpecNumeric == InitNumeric /\ [][NextNumeric]_vars

(***************************************************************************)
(* Properties.                                                             *)
(***************************************************************************)
Runs == {runs[i] : i \in 1..Len(runs)}

\* The target resolves to a FuncDecl or AliasDecl whose return type is fs.
ValidTarget(name) ==
    LET obj == Lookup("file", name)
    IN  /\ obj.kind = "decl"
        /\ obj.node \in {"FuncDecl", "AliasDecl"}
        /\ TypeOf(obj.typ) = Filesystem

\* C1: for every target name that does not resolve in the file scope to a
\* FuncDecl or AliasDecl of return type fs, Generate returns an InvalidTarget
\* error, never a nil error (no debugger, no failing option).
C1_InvalidTargetFails ==
    \A r \in Runs :
        (genOpts = <<>> /\ ~ValidTarget(targetCall))
            => (r.status = "err" /\ r.err = "ErrInvalidTarget")

\* An invalid target came back without an error.
C1_NilErrorReached ==
    \E r \in Runs : genOpts = <<>> /\ ~ValidTarget(targetCall) /\ r.status = "ok"

\* The statements of the body of `default`, by position.
TopNodes == {body[j].pos : j \in 1..Len(body)}
StmtAt(node) == body[CHOOSE j \in 1..Len(body) : body[j].pos = node]
NonDebug == SelectSeq(body, LAMBDA stmt : stmt.fn \notin Debugs)

\* The events of a history that satisfy a test, in order.
Events(log, Test(_)) == SelectSeq(log, Test)

\* Of the block of `default`: the statements evaluated to a value, and the
\* hook invocations.
Steps(r) ==
    Events(r.info.log, LAMBDA e : /\ e.ev \in {"sourced", "applied"}
                                  /\ e.scope = "default" /\ e.node \in TopNodes)
Hooks(r) ==
    Events(r.info.log, LAMBDA e : /\ e.ev = "debug"
                                  /\ e.scope = "default" /\ e.node \in TopNodes)

\* The operation a chain statement appends.
OpOf ==
    [fn \in {"env", "run", "mkdir", "mkfile", "rm", "copy", "dir", "user",
             "entrypoint"} |->
        CASE fn = "env" -> "AddEnv" [] fn = "run" -> "Run" [] fn = "mkdir" -> "Mkdir"
          [] fn = "mkfile" -> "Mkfile" [] fn = "rm" -> "Rm" [] fn = "copy" -> "Copy"
          [] fn = "dir" -> "Dir" [] fn = "user" -> "User" [] fn = "entrypoint" -> "Args"]

\* C2: in a successful evaluation of the block of the target, the first
\* non-debug statement is evaluated as the source statement, every later
\* non-debug statement is applied exactly once as a chain statement, in
\* source order, to the value the statement before it left (each adds its
\* one operation to that value), and the value of the last is the result.
C2_SourceThenChains ==
    \A r \in Runs :
        r.status = "ok" =>
            LET steps == Steps(r)
            IN  /\ Len(steps) = Len(NonDebug)
                /\ Len(steps) >= 1
                /\ steps[1].ev = "sourced"
                /\ \A k \in 1..Len(steps) :
                      /\ steps[k].node = NonDebug[k].pos
                      /\ k > 1 =>
                            /\ steps[k].ev = "applied"
                            /\ steps[k].in = steps[k - 1].v
                            /\ Len(steps[k].v.fs) = Len(steps[k].in.fs) + 1
                            /\ SubSeq(steps[k].v.fs, 1, Len(steps[k].in.fs)) = steps[k].in.fs
                            /\ steps[k].v.fs[Len(steps[k].v.fs)].op = OpOf[NonDebug[k].fn]
                /\ r.st = steps[Len(steps)].v.fs

\* A block of a debug statement, a source statement and a chain statement
\* was evaluated.
C2_Witness ==
    \E r \in Runs :
        /\ r.status = "ok"
        /\ Len(body) = 3 /\ Len(NonDebug) = 2 /\ body[1].fn = "breakpoint"
        /\ Len(r.st) = 2

\* C3 as claimed: no statement of the debug family is ever evaluated as a
\* source statement or as a chain statement, whatever the block.
C3_DebugNeverEvaluated ==
    \A r \in Runs :
        \A k \in 1..Len(r.info.log) :
            r.info.log[k].ev \in {"source", "chain"} => r.info.log[k].fn \notin Debugs

\* The value the hook of the statement at place j of the log is due: the
\* value of the last statement evaluated before it, the identity if none.
ValueBefore(log, j) ==
    LET done == {k \in 1..(j - 1) : /\ log[k].ev \in {"sourced", "applied"}
                                    /\ log[k].scope = "default"
                                    /\ log[k].node \in TopNodes}
    IN  IF done = {} THEN FsVal(Scratch)
        ELSE log[CHOOSE k \in done : \A l \in done : l <= k].v

\* C4: in a successful evaluation of the block of the target the debug hook
\* is invoked exactly once for each statement, in source order, before the
\* statement is evaluated, with the accumulator as it stands before that
\* statement.
C4_HookOncePerStatement ==
    \A r \in Runs :
        r.status = "ok" =>
            LET log == r.info.log
                hooks == Hooks(r)
            IN  /\ Len(hooks) = Len(body)
                /\ \A k \in 1..Len(hooks) : hooks[k].node = body[k].pos
                /\ \A j \in 1..Len(log) :
                      (log[j].ev = "debug" /\ log[j].scope = "default"
                          /\ log[j].node \in TopNodes) =>
                            /\ log[j].v = ValueBefore(log, j)
                            /\ \A k \in 1..Len(log) :
                                  (log[k].node = log[j].node
                                      /\ log[k].ev \in {"source", "chain"}) => j < k

\* The hook saw a value other than the identity, with a debugger installed.
C4_Witness ==
    \E r \in Runs :
        /\ r.status = "ok" /\ genOpts # <<>>
        /\ Len(body) = 3 /\ body[2].fn = "breakpoint"
        /\ \E k \in 1..Len(r.info.log) :
              /\ r.info.log[k].ev = "debug" /\ r.info.log[k].node = body[3].pos
              /\ r.info.log[k].v # FsVal(Scratch)

\* C5: whenever a statement of the block of the target has been evaluated,
\* the alias callback is invoked next when the statement has an alias, with
\* the statement and the value it left, before anything of a later
\* statement; the callback is never invoked for a statement without alias.
C5_AliasAfterStatement ==
    \A r \in Runs :
        LET log == r.info.log
        IN  /\ \A k \in 1..Len(log) :
                  (log[k].ev \in {"sourced", "applied"} /\ log[k].scope = "default"
                      /\ log[k].node \in TopNodes /\ StmtAt(log[k].node).alias # "") =>
                        /\ k < Len(log)
                        /\ log[k + 1].ev = "alias"
                        /\ log[k + 1].node = log[k].node
                        /\ log[k + 1].name = StmtAt(log[k].node).alias
                        /\ log[k + 1].v = log[k].v
            /\ \A k \in 1..Len(log) :
                  (log[k].ev = "alias" /\ log[k].node \in TopNodes) =>
                      /\ StmtAt(log[k].node).alias # ""
                      /\ k > 1 /\ log[k - 1].ev \in {"sourced", "applied"}
                      /\ log[k - 1].node = log[k].node

\* An aliased source statement and an aliased chain statement were
\* evaluated, and a statement without alias.
C5_Witness ==
    \E r \in Runs :
        /\ r.status = "ok" /\ Len(body) = 3
        /\ body[1].alias = "l" /\ body[2].alias = "" /\ body[2].fn = "env"
        /\ body[3].alias = "d"
        /\ Len(SelectSeq(r.info.log, LAMBDA e : e.ev = "alias" /\ e.node \in TopNodes)) = 2

\* The statements of a with block that bind a mount to an alias.
BoundMounts(call) ==
    IF call.with.k # "funclit" THEN {}
    ELSE {call.with.body[j] : j \in {i \in 1..Len(call.with.body) :
                                        /\ call.with.body[i].fn = "mount"
                                        /\ call.with.body[i].alias # ""}}

\* C6 as claimed: when the chain of a run statement with a with block has
\* been applied, the alias callback has been invoked exactly once for every
\* mount of the block bound to an alias, with that mount statement and the
\* mount of its target in the state after the run, same targets included.
C6_CallbackPerMount ==
    \A r \in Runs :
        LET log == r.info.log
        IN  \A k \in 1..Len(log) :
                (log[k].ev = "applied" /\ log[k].fn = "run" /\ log[k].node \in TopNodes) =>
                    \A mount \in BoundMounts(StmtAt(log[k].node)) :
                        LET calls == SelectSeq(log, LAMBDA e : /\ e.ev = "alias"
                                                               /\ e.node = mount.pos)
                        IN  /\ Len(calls) = 1
                            /\ calls[1].name = mount.alias
                            /\ calls[1].v = FsVal(GetMount(log[k].v.fs, mount.args[2].s))

\* The value a statement of the block of `default` left.
StepOf(r, node) ==
    LET steps == Steps(r)
    IN  steps[CHOOSE k \in 1..Len(steps) : steps[k].node = node]

\* The sequence a occurs in the sequence b as it is.
Within(a, b) ==
    \E off \in 0..(Len(b) - Len(a)) : SubSeq(b, off + 1, off + Len(a)) = a

\* C7 as claimed: in a successful evaluation, the option list evaluated
\* from the with clause of a builtin call is passed whole and in order to
\* the operation emitted for the call.
C7_OptionsReachBuilder ==
    \A r \in Runs :
        r.status = "ok" =>
            \A k \in 1..Len(r.info.log) :
                LET e == r.info.log[k]
                IN  (e.ev = "with" /\ e.scope = "default" /\ e.node \in TopNodes) =>
                        LET fs == StepOf(r, e.node).v.fs
                        IN  /\ Len(fs) >= 1
                            /\ Within(e.items, fs[Len(fs)].opts)

\* The path a local statement evaluated at a node names.
LocalPath(node) == IF node \in TopNodes THEN StmtAt(node).args[1].s ELSE A1

\* C8: when Generate returns, Locals has one entry for each local statement
\* evaluated in the call and no other, under pairwise distinct ids, each id
\* mapped to the path of its statement, and the Local operation a statement
\* of the block emitted carries the id of its entry.
C8_LocalsPerStatement ==
    \A r \in Runs :
        r.status \in {"ok", "err"} =>
            LET locals == r.info.locals
                evs == SelectSeq(r.info.log, LAMBDA e : e.ev = "source" /\ e.fn = "local")
                steps == Steps(r)
            IN  /\ Cardinality({p[1] : p \in locals}) = Len(evs)
                /\ Cardinality(locals) = Len(evs)
                /\ \A path \in {A1, B1} :
                      Cardinality({p \in locals : p[2] = path})
                          = Len(SelectSeq(evs, LAMBDA e : LocalPath(e.node) = path))
                /\ \A k \in 1..Len(steps) :
                      steps[k].fn \in {"local", "src"} =>
                          /\ Len(steps[k].v.fs) = 1
                          /\ steps[k].v.fs[1].op = "Local"
                          /\ <<steps[k].v.fs[1].id,
                               IF steps[k].fn = "src" THEN A1 ELSE LocalPath(steps[k].node)>>
                                 \in locals

\* Three local statements were evaluated in one call, one of them twice.
C8_Witness ==
    \E r \in Runs :
        /\ r.status = "ok"
        /\ Cardinality(r.info.locals) = 3
        /\ \E p \in r.info.locals : p[2] = B1
        /\ Cardinality({p \in r.info.locals : p[2] = A1}) = 2

\* C9 as claimed: two calls of Generate on the same file and target with
\* no debugger end alike with the same state, whatever the program.
C9_SameIR ==
    Len(runs) = 2 => (runs[1].status = runs[2].status /\ runs[1].st = runs[2].st)

\* The string the argument of the run statement of the body evaluates to.
CommandStr ==
    LET arg == body[2].args[1]
    IN  IF arg.k = "str" THEN arg.s
        ELSE IF arg.name = "greet" THEN <<"a", SP, "a">>
        ELSE <<"a">>

\* The Shlex command of the Run operation a run ended with.
ShlexOf(r) ==
    LET o == r.st[Len(r.st)].opts IN o[Len(o)].str

\* C10 as claimed: run with one argument emits the evaluated argument string
\* as its Shlex command, whatever the string.
C10_PassThrough ==
    \A r \in Runs : r.status = "ok" => ShlexOf(r) = CommandStr

\* C10 amended: the argument string is the Shlex command as it is exactly
\* when it splits into one shell word; a string of no word or several words
\* is wrapped as /bin/sh -c followed by the quoted string; a string that
\* does not split is an error.
C10_PassThroughOneWord ==
    \A r \in Runs :
        LET parts == Split(CommandStr)
        IN  IF parts.err # "" THEN r.status = "err" /\ r.err = parts.err
            ELSE /\ r.status = "ok"
                 /\ Len(r.st) = 1 /\ r.st[1].op = "Run" /\ Len(r.st[1].opts) = 1
                 /\ ShlexOf(r) = IF Len(parts.parts) = 1 THEN CommandStr
                                 ELSE <<"/bin/sh", SP, "-c", SP>> \o Quote(CommandStr)

\* A run of several words was wrapped, and a run of one word was not.
C10_Witness ==
    \E r \in Runs :
        /\ r.status = "ok"
        /\ Len(Split(CommandStr).parts) = 2
        /\ ShlexOf(r) = <<"/bin/sh", SP, "-c", SP, SQ, "a", SP, "a", SQ>>

\* The strings the arguments of the run statement of the body evaluate to.
ArgStrs ==
    [j \in 1..Len(body[2].args) |->
        IF body[2].args[j].k = "str" THEN body[2].args[j].s ELSE <<"a", SP, "a">>]

\* The option list the with clause of the statement at a node gave.
WithItems(r, node) ==
    LET evs == SelectSeq(r.info.log, LAMBDA e : e.ev = "with" /\ e.node = node)
    IN  IF evs = <<>> THEN <<>> ELSE evs[1].items

\* C11: run with two or more arguments emits a Run operation whose options
\* are those of the with clause followed by the Shlex command, and the
\* command is the arguments in source order joined so that it splits back
\* into exactly them; "a" "a a" gives a 'a a'.
C11_QuotedJoin ==
    \A r \in Runs :
        /\ r.status = "ok"
        /\ Len(r.st) = 2 /\ r.st[2].op = "Run"
        /\ r.st[2].opts = WithItems(r, body[2].pos) \o <<Shlex(ShlexOf(r))>>
        /\ Split(ShlexOf(r)) = [err |-> "", parts |-> ArgStrs]
        /\ ArgStrs = <<A1, AA>> => ShlexOf(r) = <<"a", SP, SQ, "a", SP, "a", SQ>>

\* run "a" "a a" with a with block emitted its command after the options.
C11_Witness ==
    \E r \in Runs :
        /\ ArgStrs = <<A1, AA>>
        /\ Len(r.st[2].opts) = 3
        /\ r.st[2].opts[3] = Shlex(<<"a", SP, SQ, "a", SP, "a", SQ>>)

\* The option statement of the run statement of the body, and the mode its
\* argument names: "" for a string that names no mode of the option.
OptionOf == body[2].with.body[1]
ModeNamed ==
    CASE OptionOf.fn = "network" -> ModeOf(NetModes, OptionOf.args[1].s)
      [] OptionOf.fn = "security" -> ModeOf(SecurityModes, OptionOf.args[1].s)
      [] OptionOf.fn = "mount" ->
            LET str == OptionOf.with.body[1].args[2].s
            IN  IF str \in {<<"shared">>, <<"private">>, <<"locked">>} THEN str[1] ELSE ""
      [] OTHER -> "none"

\* C12 as claimed: a network, security or cache option whose argument names
\* no mode ends the call of Generate with an error, never abnormally.
C12_UnknownModeIsError ==
    \A r \in Runs :
        (genOpts = <<>> /\ ModeNamed = "") => r.status = "err"

\* An option whose argument names no mode ended the call abnormally.
C12_PanicReached ==
    \E r \in Runs : genOpts = <<>> /\ ModeNamed = "" /\ r.status = "panic"

\* The statements of the body that fail, and those a history touches: the
\* nodes of statement j are 100 * j and, nested in it, up to 100 * j + 99.
Bad == {j \in 1..Len(body) : \E b \in BadStmts : body[j] = RelocStmt(b, body[j].pos)}
Touched(log) == {j \in 1..Len(body) : \E k \in 1..Len(log) : log[k].node \div 100 = j}
Last(S) == CHOOSE j \in S : \A l \in S : l <= j
FailAt == IF genOpts = <<>> THEN 0 ELSE genOpts[1].failAt

\* C13: a call of Generate in which the hook or a statement returns an error
\* returns that error; the statement it failed in is the last the history
\* knows, was never applied and never given to the alias callback, every
\* statement before it was evaluated once, and a hook that failed was the
\* last thing invoked.  A call succeeds only if nothing failed.
C13_AbortOnFirstFailure ==
    \A r \in Runs :
        LET log == r.info.log
            touched == Touched(log)
            done(j) == Len(SelectSeq(log, LAMBDA e : /\ e.ev \in {"sourced", "applied"}
                                                     /\ e.node = body[j].pos))
            aliased(j) == \E k \in 1..Len(log) :
                              log[k].ev = "alias" /\ log[k].node = body[j].pos
        IN  /\ r.status \in {"ok", "err"}
            /\ r.status = "ok" =>
                  /\ Bad = {}
                  /\ FailAt = 0 \/ r.info.hooks < FailAt
            /\ r.status = "err" =>
                  /\ r.st = Scratch
                  /\ \A j \in touched :
                        j < Last(touched) =>
                            done(j) = (IF body[j].fn \in Debugs THEN 0 ELSE 1)
                  /\ touched # {} => (done(Last(touched)) = 0 /\ ~aliased(Last(touched)))
                  /\ IF r.err = "debugger"
                     THEN /\ r.info.hooks = FailAt
                          /\ log[Len(log)].ev = "debug"
                          /\ \A j \in Bad : \A l \in touched : l <= j
                     ELSE /\ touched # {} /\ Last(touched) \in Bad
                          /\ \A j \in Bad : Last(touched) <= j
                          /\ r.err = ErrorOf(body[Last(touched)])
                          /\ log[Len(log)].node \div 100 = Last(touched)

\* A statement failed after an aliased statement was evaluated and before
\* another statement, with a debugger installed that did not fail.
C13_Witness ==
    \E r \in Runs :
        /\ r.status = "err" /\ r.err = "UnterminatedDoubleQuote"
        /\ genOpts # <<>>
        /\ Len(body) = 3 /\ Bad = {2}
        /\ Touched(r.info.log) = {1, 2}

\* C14: t.Equals(u) holds exactly when the principal type of t is the
\* principal type of u.
C14_EqualsOnPrincipalType ==
    \A k \in 1..Len(out) :
        out[k].op = "Equals" =>
            out[k].res = (TypeOf(cst.ObjType) = TypeOf(out[k].typ))

\* option::run was compared with its own ObjType, and with option::mount,
\* and found unequal.
C14_OwnTypeUnequal ==
    /\ cst = TypeNode(OptionRun)
    /\ out # <<>>
    /\ out[1].typ \in {OptionRun, OptionMount}
    /\ ~out[1].res

\* C15: End is defined on every node and is not before the node's Position,
\* and of two consecutive children of a node the first ends at or before the
\* position of the second.
C15_PositionMonotone ==
    \A k \in 1..Len(out) :
        /\ out[k].op = "End" =>
              /\ out[k].res.st = "ok"
              /\ PositionOf(cst).Offset <= out[k].res.pos.Offset
        /\ out[k].op = "Children" =>
              \A i \in 1..Len(out[k].res) :
                  /\ out[k].res[i].end.st = "ok"
                  /\ out[k].res[i].pos.Offset <= out[k].res[i].end.pos.Offset
                  /\ i < Len(out[k].res) =>
                        out[k].res[i].end.pos.Offset <= out[k].res[i + 1].pos.Offset

\* End was called on a FuncDecl declared without a body and dereferenced
\* the nil Body.
C15_EndOfBodilessFuncDecl ==
    /\ cst.kind = "FuncDecl"
    /\ cst.Body = NilNode
    /\ out # <<>>
    /\ out[1].op = "End"
    /\ out[1].res.st = "panic"

\* The text a single-token node consumed.
SingleTokens ==
    {"Ident", "Type", "With", "As", "Variadic", "OpenParen", "CloseParen", "OpenBrace",
     "CloseBrace", "Newline", "Comment", "BadDecl"}
TokenLen(n) ==
    CASE n.kind = "Ident" -> StrLen(n.Name)
      [] n.kind = "Type" -> StrLen(n.ObjType)
      [] n.kind \in {"With", "As", "Variadic"} -> StrLen(n.Keyword)
      [] n.kind \in {"Newline", "Comment"} -> StrLen(n.Text)
      [] n.kind = "BadDecl" -> StrLen(n.Bad)
      [] OTHER -> 1

\* C16: End of a single-token node is its Position moved by the length of
\* the token's text, in the same file.
C16_EndPastToken ==
    \A k \in 1..Len(out) :
        (out[k].op = "End" /\ cst.kind \in SingleTokens) =>
            /\ out[k].res.st = "ok"
            /\ out[k].res.pos.Offset = cst.Pos.Offset + TokenLen(cst)
            /\ out[k].res.pos.Filename = cst.Pos.Filename

\* End was called on a Comment and returned the position of the newline
\* the comment's token ends with.
C16_CommentEndsAtNewline ==
    /\ cst.kind = "Comment"
    /\ out # <<>>
    /\ out[1].op = "End"
    /\ out[1].res.pos.Offset = cst.Pos.Offset + StrLen(cst.Text) - 1
    /\ cst.Text[Len(cst.Text)] = NL

\* The base a token's prefix letter names, its digits without leading
\* zeros, the number they denote and the count of its binary digits.
BaseOfLetter(letter) ==
    CASE letter \in {"b", "B"} -> 2 [] letter \in {"o", "O"} -> 8 [] letter \in {"x", "X"} -> 16
DigitsOf(tok) == Strip([i \in 1..(Len(tok) - 2) |-> DigitVal(tok[i + 2])])
RECURSIVE Denoted(_, _)
Denoted(ds, base) ==
    IF ds = <<>> THEN 0 ELSE Denoted(SubSeq(ds, 1, Len(ds) - 1), base) * base + ds[Len(ds)]
RECURSIVE IntOf(_)
IntOf(bits) ==
    IF bits = <<>> THEN 0 ELSE IntOf(SubSeq(bits, 1, Len(bits) - 1)) * 2 + bits[Len(bits)]
Width(d) == CHOOSE w \in 0..4 : 2 ^ w > d /\ (w = 0 \/ 2 ^ (w - 1) <= d)
SigBits(ds, base) ==
    IF ds = <<>> THEN 0 ELSE (Len(ds) - 1) * BitsPer(base) + Width(ds[1])

\* C17: Capture of a Numeric token sets Base to the base of the prefix
\* letter, returns an error exactly when a digit is not below the base or
\* the number needs more than 63 binary digits, and otherwise sets Value to
\* the number the digits denote in that base.
C17_CaptureNumeric ==
    \A k \in 1..Len(out) :
        out[k].op = "Capture" =>
            LET tok == out[k].tok
                base == BaseOfLetter(tok[2])
                ds == DigitsOf(tok)
                valid == \A i \in 3..Len(tok) : DigitVal(tok[i]) < base
                fits == SigBits(ds, base) <= 63
            IN  /\ cst.Base = base
                /\ (out[k].err # "") <=> (~valid \/ ~fits)
                /\ out[k].err = "" =>
                      /\ Len(cst.Value) = SigBits(ds, base)
                      /\ Len(ds) <= MaxDigits => IntOf(cst.Value) = Denoted(ds, base)
                /\ tok = <<"0", "o", "7", "5", "5">> =>
                      (out[k].err = "" /\ IntOf(cst.Value) = 493 /\ cst.Base = 8)

\* 0o755 was captured; so were a number of 63 binary digits, without
\* error, and one of 64, with an error.
C17_Witness ==
    /\ out # <<>>
    /\ out[1].op = "Capture"
    /\ out[1].tok = <<"0", "o", "7", "5", "5">>
    /\ cst.Base = 8
    /\ out[1].err = ""

C17_WitnessRange ==
    /\ out # <<>>
    /\ out[1].op = "Capture"
    /\ out[1].tok = <<"0", "x", "8">> \o Repeat("0", 15)
    /\ out[1].err = "ErrRange"

\* The object the with clause of the second statement names.
Named == Lookup("default", body[2].with.name)

\* C18: a with clause that names an identifier yields the option list of
\* the identifier whatever the kind of its binding, and the call is emitted
\* with it: the list stored in an expression binding reaches the Run
\* operation unchanged, and no kind of binding ends the call abnormally.
C18_WithIdentEveryKind ==
    \A r \in Runs :
        /\ r.status # "panic"
        /\ (r.status = "ok" /\ Named.kind = "expr") =>
              /\ WithItems(r, body[2].pos) = Named.data.items
              /\ r.st[Len(r.st)].opts = Named.data.items \o <<Shlex(ShlexOf(r))>>

\* The with clause named a declared options function and Generate ended
\* abnormally.
C18_DeclKindPanics ==
    \E r \in Runs :
        /\ Named.kind = "decl"
        /\ r.status = "panic"
        /\ r.err = "unknown with option kind"

\* The invocations of the alias callback in a history that belong to
\* statement j of the body.
AliasEvents(r, j) ==
    SelectSeq(r.info.log, LAMBDA e : e.ev = "alias" /\ e.node \div 100 = j)

\* C19: for a run statement whose with clause is an identifier, the alias
\* callback is invoked for no mount: once for the statement itself when it
\* has an alias and was applied, and not otherwise.
C19_NoMountAlias ==
    \A r \in Runs :
        LET evs == AliasEvents(r, 2)
            applied == \E k \in 1..Len(r.info.log) :
                           r.info.log[k].ev = "applied" /\ r.info.log[k].node = body[2].pos
        IN  /\ body[2].with.k = "ident"
            /\ Len(evs) = (IF applied /\ body[2].alias # "" THEN 1 ELSE 0)
            /\ \A k \in 1..Len(evs) :
                  evs[k].node = body[2].pos /\ evs[k].name = body[2].alias

\* A run with an alias whose named options hold a mount was applied: the
\* mount is among the options of the Run operation and the callback was
\* invoked once, for the run.
C19_Witness ==
    \E r \in Runs :
        /\ r.status = "ok"
        /\ body[2].with.name = "mounts" /\ body[2].alias = "r"
        /\ \E i \in 1..Len(r.st[Len(r.st)].opts) : r.st[Len(r.st)].opts[i].o = "AddMount"
        /\ Len(AliasEvents(r, 2)) = 1

\* The options before the first one that fails, and the debugger they
\* leave installed (0 is the default hook, which never fails).
Applied ==
    IF \E i \in 1..Len(genOpts) : genOpts[i].k = "failing"
    THEN SubSeq(genOpts, 1, (CHOOSE i \in 1..Len(genOpts) :
                                /\ genOpts[i].k = "failing"
                                /\ \A j \in 1..(i - 1) : genOpts[j].k # "failing") - 1)
    ELSE genOpts
Installed == IF Applied = <<>> THEN 0 ELSE Applied[Len(Applied)].failAt
FileHook == [ev |-> "debug", scope |-> "file", node |-> FileNode, v |-> NilVal]

\* C20: Generate applies its options in order and returns the first option
\* error, nothing else done; for a name the scope does not bind the hook is
\* never invoked; otherwise the hook is invoked first of all, and once, with
\* the file scope, the file and no value, whatever the type of the target,
\* and if it fails there Generate returns its error, the empty filesystem
\* and no Locals, with nothing evaluated.  Without a debugger the hook
\* never fails.
C20_OptionsThenFileHook ==
    \A r \in Runs :
        LET log == r.info.log
        IN  /\ r.info.failAt = Installed
            /\ IF Applied # genOpts
               THEN r.status = "err" /\ r.err = "option" /\ log = <<>> /\ r.st = Scratch
               ELSE IF Lookup("file", targetCall).kind = "nil"
               THEN r.status = "err" /\ r.err = "unknown target" /\ log = <<>>
               ELSE /\ log # <<>> /\ log[1] = FileHook
                    /\ \A k \in 2..Len(log) : log[k] # FileHook
                    /\ Installed = 1 =>
                          /\ r.status = "err" /\ r.err = "debugger"
                          /\ r.st = Scratch /\ r.info.locals = {}
                          /\ Len(log) = 1
                    /\ Installed = 0 => r.err # "debugger"

\* Of two debuggers the later one was installed and failed at the hook on
\* the file.
C20_Witness ==
    \E r \in Runs :
        /\ genOpts = <<WithDebugger(0), WithDebugger(1)>>
        /\ r.status = "err" /\ r.err = "debugger"
        /\ r.info.log = <<FileHook>>

\* The option item the claim gives for the option of the run statement,
\* <<>> when the string is none of those it lists.
Expected ==
    LET str == IF OptionOf.fn = "mount" THEN OptionOf.with.body[1].args[2].s
               ELSE OptionOf.args[1].s
    IN  CASE OptionOf.fn = "network" /\ str = <<"unset">> -> <<Item("Network", "UNSET")>>
          [] OptionOf.fn = "network" /\ str = <<"host">> -> <<Item("Network", "HOST")>>
          [] OptionOf.fn = "network" /\ str = <<"node">> -> <<Item("Network", "NONE")>>
          [] OptionOf.fn = "security" /\ str = <<"sandbox">> ->
                <<Item("Security", "SANDBOX")>>
          [] OptionOf.fn = "security" /\ str = <<"insecure">> ->
                <<Item("Security", "INSECURE")>>
          [] OptionOf.fn = "mount" /\ str \in {<<"shared">>, <<"private">>, <<"locked">>} ->
                <<Item("AsPersistentCacheDir", <<A1, str>>)>>
          [] OTHER -> <<>>

\* The option items the run statement was emitted with, the Shlex command
\* left out; for a mount, the items of the mount.
Emitted(r) ==
    LET o == r.st[Len(r.st)].opts
        items == SubSeq(o, 1, Len(o) - 1)
    IN  IF OptionOf.fn = "mount" THEN items[1].opts ELSE items

\* C21: a network, security or cache sharing string is mapped to the mode
\* of the table and to nothing else: a call that succeeds was given a string
\* of the table and holds exactly the one item of its mode.
C21_ModeTable ==
    \A r \in Runs :
        r.status = "ok" =>
            /\ Expected # <<>>
            /\ r.st[Len(r.st)].op = "Run"
            /\ Len(r.st[Len(r.st)].opts) = 2
            /\ Emitted(r) = Expected

\* network "node" was emitted as the mode NONE.
C21_Witness ==
    \E r \in Runs :
        /\ r.status = "ok"
        /\ OptionOf.fn = "network" /\ OptionOf.args[1].s = <<"node">>
        /\ Emitted(r) = <<Item("Network", "NONE")>>

\* The error the second statement's input deserves, "" when it is well
\* formed: a timestamp that is not the RFC 3339 one, a command that does not
\* split.
Malformed ==
    IF body[2].fn = "run" THEN Split(body[2].args[1].s).err
    ELSE IF body[2].with.body[1].args[1].s # ValidTime THEN "parsing time"
    ELSE ""

\* C22: a malformed createdTime of mkdir, mkfile or copy, and a command of
\* run that does not split, make the call return that error with nothing
\* emitted for the statement: it is never applied and the filesystem
\* returned is empty.  A well-formed input adds one operation, the Run or
\* the file action of the statement.
C22_MalformedIsError ==
    \A r \in Runs :
        LET applied == \E k \in 1..Len(r.info.log) :
                           r.info.log[k].ev = "applied" /\ r.info.log[k].node = body[2].pos
        IN  /\ r.status \in {"ok", "err"}
            /\ Malformed # "" =>
                  /\ r.status = "err"
                  /\ r.err \in {Malformed, "debugger"}
                  /\ r.st = Scratch
                  /\ ~applied
            /\ (Malformed = "" /\ r.status = "ok") =>
                  /\ applied
                  /\ Len(r.st) = (IF body[1].fn = "scratch" THEN 1 ELSE 2)
                  /\ r.st[Len(r.st)].op =
                                     (CASE body[2].fn = "run" -> "Run"
                                      [] body[2].fn = "mkdir" -> "Mkdir"
                                      [] body[2].fn = "mkfile" -> "Mkfile"
                                      [] body[2].fn = "copy" -> "Copy")
            /\ (Malformed # "" /\ FailAt = 0) => r.err = Malformed

\* copy with a createdTime that is no timestamp returned the parse error
\* after the source statement had been evaluated.
C22_Witness ==
    \E r \in Runs :
        /\ body[2].fn = "copy" /\ body[2].with.body[1].args[1].s = A1
        /\ r.status = "err" /\ r.err = "parsing time" /\ r.st = Scratch
        /\ \E k \in 1..Len(r.info.log) : r.info.log[k].ev = "sourced"

\* The items the with clause of the generate statement stands for, in the
\* order of its statements.
FrontendItems ==
    IF body[1].with.k = "nil" THEN <<>>
    ELSE [i \in 1..Len(body[1].with.body) |->
             LET o == body[1].with.body[i]
             IN  IF o.fn = "frontendOpt"
                 THEN Item("WithFrontendOpt", <<o.args[1].s, o.args[2].s>>)
                 ELSE Item("WithFrontendInput", <<o.args[1].s, Scratch>>)]

\* C23: the Frontend operation of a generate statement carries IgnoreCache
\* first, with or without a with clause, and then the items of the with
\* clause in their order.
C23_IgnoreCacheFirst ==
    \A r \in Runs :
        \A k \in 1..Len(r.info.log) :
            LET e == r.info.log[k]
            IN  (e.ev = "sourced" /\ e.node = body[1].pos) =>
                    /\ Len(e.v.fs) = 1
                    /\ e.v.fs[1].op = "Frontend"
                    /\ e.v.fs[1].opts = <<IgnoreCache>> \o FrontendItems

\* generate was evaluated without a with clause, and with two options.
C23_Witness ==
    \E r \in Runs :
        /\ r.status = "ok"
        /\ body[1].with.k = "funclit" /\ Len(body[1].with.body) = 2
        /\ body[1].with.body[1] # body[1].with.body[2]
        /\ r.st[1].op = "Frontend" /\ Len(r.st[1].opts) = 3

C23_WitnessBare ==
    \E r \in Runs :
        /\ r.status = "ok"
        /\ body[1].with.k = "nil"
        /\ r.st[1].opts = <<IgnoreCache>>

\* The flags that append an item only when true, with the item, and the
\* flags that append their value, with the name of the item.
IfTrueFlags ==
    [resolve |-> Item("WithDefault", TRUE), keepGitDir |-> Item("KeepGitDir", TRUE),
     readonlyRootfs |-> ReadonlyRootFS, readonly |-> Item("Readonly", TRUE),
     tmpfs |-> Item("Tmpfs", TRUE)]
ValueFlags ==
    [createParents |-> "WithParents", allowNotFound |-> "WithAllowNotFound",
     allowWildcard |-> "WithAllowWildcard"]
IsFlag(stmt) == stmt.fn \in DOMAIN IfTrueFlags \cup DOMAIN ValueFlags
FlagBool(stmt) == IF stmt.args = <<>> THEN TRUE ELSE stmt.args[1].b
RECURSIVE FlagItems(_)
FlagItems(stmts) ==
    IF stmts = <<>> THEN <<>>
    ELSE (IF Head(stmts).fn \in DOMAIN ValueFlags
          THEN <<Item(ValueFlags[Head(stmts).fn], FlagBool(Head(stmts)))>>
          ELSE IF FlagBool(Head(stmts)) THEN <<IfTrueFlags[Head(stmts).fn]>> ELSE <<>>)
         \o FlagItems(Tail(stmts))

\* The calls of the body that carry a block of flags.
FlagHosts ==
    {body[j] : j \in 1..Len(body)}
        \cup (IF body[2].with.k = "funclit" /\ Len(body[2].with.body) = 1
              THEN {body[2].with.body[1]} ELSE {})
OnlyFlags(call) ==
    /\ call.with.k = "funclit"
    /\ call.with.body # <<>>
    /\ \A i \in 1..Len(call.with.body) : IsFlag(call.with.body[i])

\* C24: resolve, keepGitDir, readonlyRootfs, readonly and tmpfs append their
\* item exactly when their value is true; createParents, allowNotFound and
\* allowWildcard always append one item with their value; the items are in
\* statement order, and reach the operation emitted.
C24_FlagOptions ==
    \A r \in Runs :
        /\ \A k \in 1..Len(r.info.log) :
              \A h \in FlagHosts :
                  (r.info.log[k].ev = "with" /\ r.info.log[k].node = h.pos /\ OnlyFlags(h))
                      => r.info.log[k].items = FlagItems(h.with.body)
        /\ (r.status = "ok" /\ OnlyFlags(body[2]) /\ body[2].fn \in {"mkdir", "rm"})
              => r.st[Len(r.st)].opts = FlagItems(body[2].with.body)
        /\ (r.status = "ok" /\ OnlyFlags(body[1])) => r.st[1].opts = FlagItems(body[1].with.body)

\* rm was emitted with allowNotFound false and allowWildcard true, in that
\* order; a mount was evaluated with readonly false and tmpfs.
C24_Witness ==
    \E r \in Runs :
        /\ r.status = "ok" /\ body[2].fn = "rm"
        /\ r.st[Len(r.st)].opts = <<Item("WithAllowNotFound", FALSE),
                                    Item("WithAllowWildcard", TRUE)>>

C24_WitnessIfTrue ==
    \E r \in Runs :
        /\ r.status = "ok" /\ body[2].fn = "run" /\ body[2].with.k = "funclit"
        /\ Len(body[2].with.body) = 1
        /\ body[2].with.body[1].fn = "mount"
        /\ Len(body[2].with.body[1].with.body) = 2
        /\ body[2].with.body[1].with.body[1].args = <<BoolLit(FALSE)>>
        /\ WithItems(r, body[2].with.body[1].pos) = <<Item("Tmpfs", TRUE)>>

\* The CopyInfo of a block: each field is the value of the last statement
\* of its flag, false when the flag does not appear.
LastFlag(stmts, fn) ==
    LET at == {i \in 1..Len(stmts) : stmts[i].fn = fn}
    IN  IF at = {} THEN FALSE
        ELSE LET i == CHOOSE i \in at : \A j \in at : j <= i IN FlagBool(stmts[i])
CopyInfoOf(stmts) ==
    [o |-> "CopyInfo", FollowSymlinks |-> LastFlag(stmts, "followSymlinks"),
     CopyDirContentsOnly |-> LastFlag(stmts, "contentsOnly"),
     AttemptUnpack |-> LastFlag(stmts, "unpack"),
     CreateDestPath |-> LastFlag(stmts, "createDestPath"),
     AllowWildcard |-> LastFlag(stmts, "allowWildcards"),
     AllowEmptyWildcard |-> LastFlag(stmts, "allowEmptyWildcard")]
RECURSIVE CopyItems(_)
CopyItems(stmts) ==
    IF stmts = <<>> THEN <<>>
    ELSE (CASE Head(stmts).fn = "chown" -> <<Item("WithUser", Head(stmts).args[1].s)>>
            [] Head(stmts).fn = "createdTime" -> <<Item("WithCreatedTime", ValidTime)>>
            [] OTHER -> <<>>)
         \o CopyItems(Tail(stmts))

\* C25: the options of a copy are one CopyInfo with the last value of every
\* flag of the block (false for a flag that does not appear), followed by
\* the chown and createdTime items in statement order; the CopyInfo is
\* there when the block has no flag.
C25_CopyInfoFirst ==
    \A r \in Runs :
        /\ \A k \in 1..Len(r.info.log) :
              (r.info.log[k].ev = "with" /\ r.info.log[k].node = body[2].pos)
                  => r.info.log[k].items
                         = <<CopyInfoOf(body[2].with.body)>> \o CopyItems(body[2].with.body)
        /\ r.status = "ok"
              => r.st[Len(r.st)].opts
                     = <<CopyInfoOf(body[2].with.body)>> \o CopyItems(body[2].with.body)

\* A copy was emitted whose block sets unpack to true and then to false.
C25_Witness ==
    \E r \in Runs :
        /\ r.status = "ok"
        /\ Len(body[2].with.body) = 2
        /\ body[2].with.body[1].fn = "unpack" /\ body[2].with.body[1].args = <<>>
        /\ body[2].with.body[2].fn = "unpack" /\ body[2].with.body[2].args = <<BoolLit(FALSE)>>
        /\ r.st[Len(r.st)].opts = <<CopyInfo0>>

\* A copy was emitted whose block has a chown and no flag.
C25_WitnessNoFlag ==
    \E r \in Runs :
        /\ r.status = "ok"
        /\ Len(body[2].with.body) = 1 /\ body[2].with.body[1].fn = "chown"
        /\ r.st[Len(r.st)].opts = <<CopyInfo0, Item("WithUser", A1)>>

\* The value of the last statement fn of a block, zero when there is none.
LastArg(stmts, fn, zero) ==
    LET at == {i \in 1..Len(stmts) : stmts[i].fn = fn}
    IN  IF at = {} THEN zero
        ELSE LET i == CHOOSE i \in at : \A j \in at : j <= i
             IN  IF fn = "target" THEN stmts[i].args[1].s ELSE stmts[i].args[1].n
RECURSIVE IdItems(_, _)
IdItems(stmts, name) ==
    IF stmts = <<>> THEN <<>>
    ELSE (IF Head(stmts).fn = "id" THEN <<Item(name, Head(stmts).args[1].s)>> ELSE <<>>)
         \o IdItems(Tail(stmts), name)
SocketItems(call) ==
    LET stmts == call.with.body
        fields == IF call.fn = "ssh" THEN {"target", "uid", "gid", "mode"}
                  ELSE {"uid", "gid", "mode"}
        some == \E i \in 1..Len(stmts) : stmts[i].fn \in fields
        agg == IF call.fn = "ssh"
               THEN Item("SSHSocketOpt", [target |-> LastArg(stmts, "target", <<>>),
                                          uid |-> LastArg(stmts, "uid", 0),
                                          gid |-> LastArg(stmts, "gid", 0),
                                          mode |-> LastArg(stmts, "mode", 0)])
               ELSE Item("SecretFileOpt", [uid |-> LastArg(stmts, "uid", 0),
                                           gid |-> LastArg(stmts, "gid", 0),
                                           mode |-> LastArg(stmts, "mode", 0)])
    IN  IdItems(stmts, IF call.fn = "ssh" THEN "SSHID" ELSE "SecretID")
            \o (IF some THEN <<agg>> ELSE <<>>)

C26_WitnessZero ==
    \E r \in Runs :
        /\ r.status = "ok" /\ OptionOf.fn = "secret" /\ Len(OptionOf.with.body) = 1
        /\ WithItems(r, OptionOf.pos)
               = <<Item("SecretFileOpt", [uid |-> 0, gid |-> 0, mode |-> 0])>>

\* C27 as claimed: the evaluation of a block without a statement outside
\* the debug family (none at all, or debug calls only) terminates normally,
\* and when no hook fails it returns the identity, the empty filesystem.
C27_NoStatementIsIdentity ==
    \A r \in Runs :
        NonDebug = <<>> =>
            /\ r.status # "panic"
            /\ r.err = "" => (r.status = "ok" /\ r.st = Scratch)

\* The block of the target is empty, or made of debug calls, and its
\* evaluation ended abnormally.
C27_EmptyBlockPanics ==
    \E r \in Runs : body = <<>> /\ r.status = "panic"

C27_DebugOnlyBlockPanics ==
    \E r \in Runs : body # <<>> /\ NonDebug = <<>> /\ r.status = "panic"

\* The evaluations of the with option of the call at node during r.
WithEvals(r, node) == {k \in 1..Len(r.info.log) : /\ r.info.log[k].ev = "with"
                                                  /\ r.info.log[k].node = node}

\* C28 as claimed: in an evaluation of the block the with option of every
\* builtin statement, source or chain, mkdir included, is evaluated at most
\* once.
C28_WithEvaluatedOnce ==
    \A r \in Runs :
        \A j \in 1..Len(body) : Cardinality(WithEvals(r, body[j].pos)) <= 1

\* A mkdir was emitted and its with option was evaluated twice; the with
\* option of an rm was evaluated once.
C28_MkdirEvaluatesTwice ==
    \E r \in Runs :
        /\ r.status = "ok" /\ body[2].fn = "mkdir"
        /\ Cardinality(WithEvals(r, body[2].pos)) = 2

C28_RmEvaluatesOnce ==
    \E r \in Runs :
        /\ r.status = "ok" /\ body[2].fn = "rm"
        /\ Cardinality(WithEvals(r, body[2].pos)) = 1

\* C29 as claimed: for every statement in chain position, a user-defined
\* function called after the source included, emitFilesystemChainStmt
\* returns an error or a state option that can be applied: no evaluation
\* ends in the application of a nil state option.
C29_ChainIsUsable ==
    \A r \in Runs : ~(r.status = "panic" /\ r.err = "nil state option")

\* A user-defined function was called after the source statement: it was
\* evaluated as a chain statement, without error, and the application of
\* what came back ended the evaluation abnormally.
C29_UserFunctionChainPanics ==
    \E r \in Runs :
        /\ Len(body) = 2 /\ body[1].fn = "scratch" /\ body[2].fn = "src"
        /\ r.status = "panic" /\ r.err = "nil state option"
        /\ \E k \in 1..Len(r.info.log) :
              r.info.log[k].ev = "chain" /\ r.info.log[k].node = body[2].pos

\* The invocations of alias callbacks during r.
Aliased(r) == {k \in 1..Len(r.info.log) : r.info.log[k].ev = "alias"}

\* C30: the callback of the caller is invoked for aliases on the
\* statements of the function it was given to, and for nothing else: the
\* aliases in the body of a user-defined function called by a source
\* statement and those in string blocks go to the no-op callback, and so
\* does every alias when the target is a function.
C30_NoAliasLeak ==
    \A r \in Runs :
        \A k \in Aliased(r) :
            /\ r.info.log[k].ac # noopAliasCallback
                  => /\ targetCall = "mine"
                     /\ r.info.log[k].node \in TopNodes
            /\ targetCall = "default" => r.info.log[k].ac = noopAliasCallback

\* The target is the alias of a statement that calls build: the mount
\* aliased in the body of build went to the no-op callback, the calling
\* statement to the callback of the alias.
C30_Witness ==
    \E r \in Runs :
        /\ r.status = "ok" /\ targetCall = "mine"
        /\ body[1].fn = "build" /\ body[1].alias = "mine"
        /\ \E k \in Aliased(r) : /\ r.info.log[k].node = BinaryMount.pos
                                 /\ r.info.log[k].ac = noopAliasCallback
        /\ \E k \in Aliased(r) : /\ r.info.log[k].node = body[1].pos
                                 /\ r.info.log[k].ac # noopAliasCallback

\* The same with a string block whose statement is aliased.
C30_WitnessStringBlock ==
    \E r \in Runs :
        /\ r.status = "ok" /\ targetCall = "mine" /\ Len(body) = 2
        /\ body[2].alias = "mine" /\ body[2].args[2].k = "funclit"
        /\ \E k \in Aliased(r) : /\ r.info.log[k].node = body[2].args[2].body[1].pos
                                 /\ r.info.log[k].ac = noopAliasCallback
        /\ \E k \in Aliased(r) : /\ r.info.log[k].node = body[2].pos
                                 /\ r.info.log[k].ac # noopAliasCallback
====
